---- MODULE Spec2Model ----
(***************************************************************************)
(* Robo AI - Dynamic Illustration Generator.                               *)
(*                                                                         *)
(* A state machine of the App component (src/App.tsx), of the controls it  *)
(* hands its handlers to (ControlsPanel, src/unnamed/part_000) and of the   *)
(* result browser (src/components/OutputArea.tsx).                         *)
(*                                                                         *)
(* Text is a sequence of tokens: a word (a maximal run of characters that  *)
(* are neither blank nor a line break, such as "happy"), one blank " ", or *)
(* one line break "\n".  'happy grin' is <<"happy", " ", "grin">>.  File   *)
(* names are sequences of single characters, because the upload check      *)
(* searches inside words.                                                  *)
(*                                                                         *)
(* One action is one synchronous segment of JavaScript: an event handler   *)
(* up to its first await, or the continuation of an await up to the next.  *)
(* React commits the state such a segment sets before the next event is    *)
(* handled, so a handler reads the state its predecessor left.             *)
(*                                                                         *)
(* User input is offered whenever the control is rendered and not          *)
(* disabled.  The two dialogs are full-window overlays (ConfirmationModal  *)
(* line 29, ImageModal line 191) but neither traps keyboard focus nor      *)
(* makes the page inert, so the controls under them stay operable.         *)
(***************************************************************************)
EXTENDS Integers, Sequences, FiniteSets, TLC

----------------------------------------------------------------------------
(* Bounds of the model.                                                    *)

\* How many operations the user may perform besides Generate and the answers
\* to the confirmation: edits of the text box, file picks, and opening,
\* closing and deleting in the detail view.
MaxOps == 3
\* How many batch runs may be started.
MaxRuns == 2
\* The grid positions the user may open in the detail view: 0 .. MaxOpen-1.
MaxOpen == 2
\* How many of those operations the user may perform in SpecBatch.
MaxBatchOps == 2
\* How many of them in SpecEdits.
MaxEditOps == 4
\* How many of them, changes of the style controls included, in SpecStyle.
MaxStyleOps == 2
\* How many of them, the template dialogs included, in SpecTemplates.
MaxTemplateOps == 5
\* The longest list of parts in a response of the external service.
MaxParts == 2
\* The operations of a session on the text overlay.
MaxOverlayOps == 6
\* The results of the run whose collection handleDeleteImage is applied to.
MaxEntries == 4

\* The batch ceiling of handleGenerate.
BatchCeiling == 30

----------------------------------------------------------------------------
(* Strings: String.prototype.split('\n'), trim, and [...new Set(list)].    *)

IsBlank(tok) == tok \in {" ", "\t"}

RECURSIVE TrimStart(_)
TrimStart(s) ==
  IF s # <<>> /\ IsBlank(Head(s)) THEN TrimStart(Tail(s)) ELSE s

RECURSIVE TrimEnd(_)
TrimEnd(s) ==
  IF s # <<>> /\ IsBlank(s[Len(s)]) THEN TrimEnd(SubSeq(s, 1, Len(s) - 1)) ELSE s

\* p.trim()
Trim(s) == TrimEnd(TrimStart(s))

\* text.split('\n'): the empty text gives one empty line, and a text with n
\* line breaks gives n + 1 lines.
RECURSIVE SplitFrom(_, _, _)
SplitFrom(text, k, cur) ==
  IF k > Len(text) THEN <<cur>>
  ELSE IF text[k] = "\n" THEN <<cur>> \o SplitFrom(text, k + 1, <<>>)
  ELSE SplitFrom(text, k + 1, Append(cur, text[k]))

SplitLines(text) == SplitFrom(text, 1, <<>>)

\* lines.join('\n')
RECURSIVE JoinLines(_)
JoinLines(lines) ==
  IF lines = <<>> THEN <<>>
  ELSE IF Len(lines) = 1 THEN lines[1]
  ELSE lines[1] \o <<"\n">> \o JoinLines(Tail(lines))

Range(s) == {s[k] : k \in 1..Len(s)}

Includes(list, x) == x \in Range(list)

\* [...new Set(list)]: the first occurrence of every element, in order.
RECURSIVE Dedup(_)
Dedup(list) ==
  IF list = <<>> THEN <<>>
  ELSE LET init == Dedup(SubSeq(list, 1, Len(list) - 1))
           last == list[Len(list)]
       IN  IF Includes(init, last) THEN init ELSE Append(init, last)

VariationPromptsKeepsBlank(text) ==
  LET lines == SplitLines(text)
  IN  [k \in 1..Len(lines) |-> Trim(lines[k])]

VariationPromptsNoTrim(text) ==
  SelectSeq(SplitLines(text), LAMBDA p : Len(p) > 0)

\* variations.split('\n').map(p => p.trim()).filter(p => p.length > 0)
VariationPrompts(text) ==
  LET lines == SplitLines(text)
      trimmed == [k \in 1..Len(lines) |-> Trim(lines[k])]
  IN  SelectSeq(trimmed, LAMBDA p : Len(p) > 0)

----------------------------------------------------------------------------
(* Values.  A nullable value is <<>> (null) or <<v>>.                      *)

Null == <<>>
Some(v) == <<v>>
Val(opt) == opt[1]

\* App.tsx line 10-12.
INITIAL_PRESETS ==
  << <<"happy", " ", "grin">>,
     <<"shocked">>,
     <<"crying", " ", "tears", " ", "of", " ", "joy">>,
     <<"winking">>,
     <<"reading", " ", "a", " ", "book">>,
     <<"using", " ", "a", " ", "laptop">>,
     <<"holding", " ", "a", " ", "coffee", " ", "mug">>,
     <<"giving", " ", "a", " ", "thumbs-up">>,
     <<"in", " ", "a", " ", "superhero", " ", "pose">>,
     <<"wearing", " ", "a", " ", "party", " ", "hat", " ", "with", " ", "confetti">>,
     <<"wearing", " ", "a", " ", "Santa", " ", "hat">>,
     <<"holding", " ", "a", " ", "pumpkin">> >>

\* The messages of setError.
ErrNoBaseImage == <<"Please upload a base image first.">>
ErrNoVariations == <<"Please enter at least one variation prompt.">>
ErrBatchTooLarge == <<"Batch mode supports up to 30 variations per run.">>
ErrFileType == <<"Invalid file type. Please upload a PNG, JPG, or WebP file.">>
ErrRealPerson ==
  <<"Real person photos are not supported. Please use an illustrated avatar or mascot.">>
\* `Failed to generate variation for: "${prompt}". Please try again.`
ErrGenerationWrongPrompt(prompts, i) ==
  <<"Failed to generate variation for: \"">> \o prompts[1]
     \o <<"\". Please try again.">>
ErrGeneration(prompts, i) ==
  <<"Failed to generate variation for: \"">> \o prompts[i + 1]
     \o <<"\". Please try again.">>

----------------------------------------------------------------------------
(* What the user can type and pick.                                        *)

TextBlank == <<" ", "\n", "\t", " ", "\n">>
\* "happy grin\n\nwinking"
TextScenario == <<"happy", " ", "grin", "\n", "\n", "winking">>
\* " robot dance \nshocked\nrobot dance": a phrase that is no preset, twice.
TextNew ==
  <<" ", "robot", " ", "dance", " ", "\n", "shocked", "\n", "robot", " ", "dance">>
\* n lines "shocked".
TextOfLines(n) == [k \in 1..(2 * n - 1) |-> IF k % 2 = 1 THEN "shocked" ELSE "\n"]
TextAtCeiling == TextOfLines(BatchCeiling)
TextOverCeiling == TextOfLines(BatchCeiling + 1)

Texts == {<<>>, TextBlank, TextScenario, TextNew}
\* The texts of SpecBatch, which reach the batch ceiling.
BatchTexts == {TextScenario, TextNew, TextAtCeiling, TextOverCeiling}

\* File names, character by character.
NameRobo == <<"r", "o", "b", "o", ".", "p", "n", "g">>
NameSelfie == <<"M", "y", "S", "e", "l", "f", "i", "e", ".", "j", "p", "g">>

FileRobo == [type |-> "image/png", name |-> NameRobo, bytes |-> "robo"]
FileMascot == [type |-> "image/webp", name |-> <<"m", "a", "s", "c", "o", "t", ".", "w", "e", "b", "p">>, bytes |-> "mascot"]
FileAnim == [type |-> "image/gif", name |-> <<"a", "n", "i", "m", ".", "g", "i", "f">>, bytes |-> "anim"]
FileSelfie == [type |-> "image/jpeg", name |-> NameSelfie, bytes |-> "selfie"]

Files == {FileRobo, FileMascot, FileAnim, FileSelfie}

\* name.toLowerCase(), for the letters the names above use.
LowerCharKeepsCase(c) == c

LowerChar(c) ==
  CASE c = "M" -> "m" [] c = "S" -> "s" [] c = "P" -> "p"
    [] c = "H" -> "h" [] c = "E" -> "e" [] c = "R" -> "r" [] c = "O" -> "o"
    [] c = "Z" -> "z" [] OTHER -> c

ContainsAt(s, w, k) ==
  /\ k + Len(w) - 1 <= Len(s)
  /\ \A j \in 1..Len(w) : LowerChar(s[k + j - 1]) = w[j]

ContainsWord(s, w) == \E k \in 1..Len(s) : ContainsAt(s, w, k)

\* /(person|photo|selfie|portrait)/i.test(file.name)
LooksLikePhoto(name) ==
  \/ ContainsWord(name, <<"p", "e", "r", "s", "o", "n">>)
  \/ ContainsWord(name, <<"p", "h", "o", "t", "o">>)
  \/ ContainsWord(name, <<"s", "e", "l", "f", "i", "e">>)
  \/ ContainsWord(name, <<"p", "o", "r", "t", "r", "a", "i", "t">>)

AcceptedTypes == {"image/png", "image/jpeg", "image/webp"}

\* fileToBase64: the data URL of a file, as its MIME type and its payload.
FileToBase64(file) == [mime |-> file.type, data |-> file.bytes]

----------------------------------------------------------------------------
(* State.                                                                  *)

VARIABLES
  \* App (src/App.tsx line 15-69)
  baseImage,                \* Null or Some([file, base64])
  variations,               \* the text of the variations box
  generatedImages,          \* the result collection: [id, prompt, base64]
  isLoading,
  progress,                 \* Null or Some([current, total])
  error,                    \* Null or Some(message)
  presets,
  savePresetsConfirmation,  \* Null or Some(list of new phrases)
  \* the style controls (src/App.tsx line 24-51)
  primaryColor,
  secondaryColor,
  useStrictPalette,
  consistencyLocks,         \* the five locks, by name
  promptTuning,             \* [expressionIntensity, propSize], each 0..100
  \* ControlsPanel (src/unnamed/part_000 line 166-168)
  isLoadModalOpen,
  isSaveModalOpen,
  savedTemplates,           \* [id, name, variations, primaryColor, secondaryColor]
  \* localStorage: the value under 'roboAiTemplates', Null when there is none.
  \* The other keys are only written during a session and are left out.
  storedTemplates,
  \* OutputArea (src/components/OutputArea.tsx line 24)
  modalImageIndex,          \* Null or Some(index from 0)
  selectedImages,           \* the set of selected ids (line 23)
  \* ImageModal (src/components/ImageModal.tsx line 23-24)
  modal,                    \* [isRemovingBg, isAddingOutline] of the mounted detail view
  \* calls in progress
  uploads,                  \* Null or Some(file): a handleImageUpload at its await
  runs,                     \* the executeGeneration calls, oldest first
  edits,                    \* the edits of the detail view at their await, oldest first
  client,                   \* a call of the Generation Client (src/services/geminiService.ts)
  now,                      \* Date.now()
  \* history, read by the properties only
  asked,                    \* what handleGenerate validated when it opened the confirmation
  boot,                     \* what localStorage held when the page was opened
  deleted,                  \* the ids handleDeleteImage was called with
  missed,                   \* the ids an edit was applied to when they were gone
  blankApplies,             \* how often handleApplyText has returned on a blank text
  nOps, nRuns

appVars ==
  <<baseImage, variations, generatedImages, isLoading, progress, error, presets,
    savePresetsConfirmation>>
styleVars ==
  <<primaryColor, secondaryColor, useStrictPalette, consistencyLocks, promptTuning>>
panelVars == <<isLoadModalOpen, isSaveModalOpen, savedTemplates, storedTemplates, boot>>
budgets == <<nOps, nRuns>>
viewVars == <<selectedImages, modal, edits, deleted, missed, blankApplies>>
vars ==
  <<appVars, styleVars, panelVars, client, modalImageIndex, uploads, runs, now, asked, budgets,
    viewVars>>

\* A value of localStorage: the text JSON.stringify gives for a value, or a
\* text that is no JSON.
JsonStringify(value) == [json |-> TRUE, value |-> value]
NoJson == [json |-> FALSE, value |-> "{oops"]

\* JSON.parse: the value of a JSON text; on any other text it throws.
Parses(text) == text.json
JsonParse(text) == text.value

\* The presets initializer (App.tsx line 56-68) on what is stored under
\* 'roboAiPresets'.
PresetsFromStorageEmptyOnError(saved) ==
  IF saved = Null THEN INITIAL_PRESETS
  ELSE IF Parses(Val(saved)) THEN Dedup(INITIAL_PRESETS \o JsonParse(Val(saved)))
  ELSE <<>>
PresetsFromStorage(saved) ==
  IF saved # Null /\ Parses(Val(saved))
    THEN Dedup(INITIAL_PRESETS \o JsonParse(Val(saved)))
    ELSE INITIAL_PRESETS

\* The effect that loads the templates (part_000 line 170-181) on what is
\* stored under 'roboAiTemplates': the list it sets, and what it leaves in
\* the store.
TemplatesFromStorage(saved) ==
  IF saved # Null /\ Parses(Val(saved)) THEN JsonParse(Val(saved)) ELSE <<>>

StoreAfterLoad(saved) ==
  IF saved # Null /\ ~Parses(Val(saved)) THEN Null ELSE saved

\* The page has been opened on a store that held stored.presets and
\* stored.templates.
PanelOpenedOn(stored) ==
  /\ boot = stored
  /\ isLoadModalOpen = FALSE
  /\ isSaveModalOpen = FALSE
  /\ savedTemplates = TemplatesFromStorage(stored.templates)
  /\ storedTemplates = StoreAfterLoad(stored.templates)

EmptyStore == [presets |-> Null, templates |-> Null]

\* No call of the Generation Client is being followed; one call is
\* followed from the call to the promise it settles.
ClientAtRest ==
  [pc |-> "idle", op |-> "", promptTuning |-> Null, tuningLines |-> Null, outcome |-> Null,
   settled |-> Null]

\* The initial values of the style controls (App.tsx line 24-51); nothing
\* is stored for the two colors in a new session.
DefaultLocks ==
  [headAndFaceShape |-> TRUE, eyesStyle |-> TRUE, mouthStyle |-> TRUE,
   outlineThickness |-> TRUE, shadingStyle |-> TRUE]

StyleAtStart ==
  [colors |-> [primary |-> "#4F46E5", secondary |-> "#10B981"],
   useStrictPalette |-> TRUE,
   consistencyLocks |-> DefaultLocks,
   promptTuning |-> [expressionIntensity |-> 50, propSize |-> 50]]

StyleIsDefault ==
  /\ primaryColor = "#4F46E5"
  /\ secondaryColor = "#10B981"
  /\ useStrictPalette = TRUE
  /\ consistencyLocks = DefaultLocks
  /\ promptTuning = [expressionIntensity |-> 50, propSize |-> 50]

\* The style values a render of App passes to its executeGeneration
\* (line 135-138, 159).
Style ==
  [colors |-> [primary |-> primaryColor, secondary |-> secondaryColor],
   useStrictPalette |-> useStrictPalette,
   consistencyLocks |-> consistencyLocks,
   promptTuning |-> promptTuning]

\* The ids of a collection (OutputArea.tsx line 28).
Ids(images) == {images[k].id : k \in 1..Len(images)}

SelectAllOnLengthChange(images) ==
  IF Len(images) = Len(generatedImages) THEN selectedImages
  ELSE {images[k].id : k \in 1..Len(images)}

SelectAllKeepsChoice(images) == selectedImages \cap Ids(images)

\* The selection after the collection has been set to images: the effect
\* of OutputArea.tsx lines 26-29 selects every entry.
SelectAll(images) == Ids(images)

\* currentImage (OutputArea.tsx line 88) of a collection and a focus index:
\* the detail view is mounted when it is defined (line 133).
ShownIn(images, index) == index # Null /\ Val(index) < Len(images)

\* The state of a detail view that has just mounted, or whose image has
\* changed (ImageModal.tsx line 23-24, 30-33, 70-75).
ModalIdle ==
  [isRemovingBg |-> FALSE, isAddingOutline |-> FALSE, isTextPopoverOpen |-> FALSE,
   textOverlay |-> [text |-> <<"Hello", " ", "World">>]]

\* The detail view after a step that leaves the collection images2 and the
\* focus index2, m being what the step itself set: the state is lost when
\* the view unmounts; when image.id changes the flags are reset and the
\* popover is closed (line 70-75), and the text of the overlay is kept.
ModalAfter(m, images2, index2) ==
  IF ~ShownIn(images2, index2) THEN ModalIdle
  ELSE IF ~ShownIn(generatedImages, modalImageIndex) THEN ModalIdle
  ELSE IF images2[Val(index2) + 1].id # generatedImages[Val(modalImageIndex) + 1].id
    THEN [ModalIdle EXCEPT !.textOverlay = m.textOverlay]
  ELSE m

\* The edits in progress after such a step: when the view unmounts, the
\* setters their handlers still hold are those of a component that is gone.
EditsAfter(es, images2, index2) ==
  IF ShownIn(generatedImages, modalImageIndex) /\ ~ShownIn(images2, index2)
    THEN [k \in 1..Len(es) |-> [es[k] EXCEPT !.attached = FALSE]]
    ELSE es

Init ==
  /\ baseImage = Null
  /\ variations \in Texts
  /\ generatedImages = <<>>
  /\ isLoading = FALSE
  /\ progress = Null
  /\ error = Null
  /\ presets = INITIAL_PRESETS
  /\ savePresetsConfirmation = Null
  /\ StyleIsDefault
  /\ PanelOpenedOn(EmptyStore)
  /\ client = ClientAtRest
  /\ modalImageIndex = Null
  /\ uploads = Null
  /\ runs = <<>>
  /\ now = 0
  /\ asked = Null
  /\ selectedImages = {}
  /\ modal = ModalIdle
  /\ edits = <<>>
  /\ deleted = {}
  /\ missed = {}
  /\ blankApplies = 0
  /\ nOps = 0 /\ nRuns = 0

----------------------------------------------------------------------------
(* The variations text box (part_000 line 328-334).                        *)

SetVariations(text) ==
  /\ nOps < MaxOps
  /\ text # variations
  /\ variations' = text
  /\ nOps' = nOps + 1
  /\ UNCHANGED <<styleVars, panelVars, client, baseImage, generatedImages, isLoading, progress, error, presets,
                 savePresetsConfirmation, modalImageIndex, uploads, runs, now, asked, nRuns,
                 viewVars>>

TogglePresetRemovesAll(preset) ==
  /\ nOps < MaxOps
  /\ Includes(presets, preset)
  /\ LET lines == VariationPrompts(variations)
     IN  variations' = JoinLines(IF Includes(lines, preset)
                                   THEN SelectSeq(lines, LAMBDA l : l # preset)
                                   ELSE Append(lines, preset))
  /\ nOps' = nOps + 1
  /\ UNCHANGED <<styleVars, panelVars, client, baseImage, generatedImages, isLoading, progress, error, presets,
                 savePresetsConfirmation, modalImageIndex, uploads, runs, now, asked, nRuns,
                 viewVars>>

\* togglePreset (part_000 line 206-215) by the button of a preset (line
\* 336-339), which is never disabled.
TogglePreset(preset) ==
  /\ nOps < MaxOps
  /\ Includes(presets, preset)
  /\ LET lines == VariationPrompts(variations)
         found == {k \in 1..Len(lines) : lines[k] = preset}
     IN  variations' = JoinLines(IF found # {}
                                   THEN LET index == CHOOSE k \in found : \A j \in found : k <= j
                                        IN  SubSeq(lines, 1, index - 1)
                                              \o SubSeq(lines, index + 1, Len(lines))
                                   ELSE Append(lines, preset))
  /\ nOps' = nOps + 1
  /\ UNCHANGED <<styleVars, panelVars, client, baseImage, generatedImages, isLoading, progress, error, presets,
                 savePresetsConfirmation, modalImageIndex, uploads, runs, now, asked, nRuns,
                 viewVars>>

----------------------------------------------------------------------------
(* handleImageUpload (App.tsx line 92-106): the checks, then the await of  *)
(* fileToBase64, then the two setters.  One read is in flight at a time.   *)

UploadStart(file) ==
  /\ nOps < MaxOps
  /\ uploads = Null
  /\ nOps' = nOps + 1
  /\ IF file.type \notin AcceptedTypes
        THEN error' = Some(ErrFileType) /\ UNCHANGED uploads
      ELSE IF LooksLikePhoto(file.name)
        THEN error' = Some(ErrRealPerson) /\ UNCHANGED uploads
      ELSE error' = Null /\ uploads' = Some(file)
  /\ UNCHANGED <<styleVars, panelVars, client, baseImage, variations, generatedImages, isLoading, progress, presets,
                 savePresetsConfirmation, modalImageIndex, runs, now, asked,
                 nRuns, viewVars>>

\* fileToBase64 resolves (fileUtils.ts line 9).
UploadDone ==
  /\ uploads # Null
  /\ baseImage' = Some([file |-> Val(uploads), base64 |-> FileToBase64(Val(uploads))])
  /\ generatedImages' = <<>>
  /\ selectedImages' = SelectAll(<<>>)
  /\ modal' = ModalAfter(modal, <<>>, modalImageIndex)
  /\ edits' = EditsAfter(edits, <<>>, modalImageIndex)
  /\ uploads' = Null
  /\ UNCHANGED <<styleVars, panelVars, client, variations, isLoading, progress, error, presets,
                 savePresetsConfirmation, modalImageIndex, runs, now, asked, budgets,
                 deleted, missed, blankApplies>>

\* fileToBase64 rejects (fileUtils.ts line 10): handleImageUpload ends there.
UploadFails ==
  /\ uploads # Null
  /\ uploads' = Null
  /\ UNCHANGED <<styleVars, panelVars, client, appVars, modalImageIndex, runs, now, asked, budgets, viewVars>>

----------------------------------------------------------------------------
(* executeGeneration (App.tsx line 108-159).                               *)

\* The argument of generateVariation (line 130-140).
GenerationCall(base, prompt, style) ==
  [baseImage |-> [data |-> base.base64.data, mimeType |-> base.file.type],
   prompt |-> prompt,
   colors |-> style.colors,
   useStrictPalette |-> style.useStrictPalette,
   consistencyLocks |-> style.consistencyLocks,
   promptTuning |-> style.promptTuning]

\* What the service answers: an image of that prompt on that base image.
ResultOf(call) == [mime |-> "image/png",
                   data |-> <<"variation", call.baseImage.data, call.prompt>>]

\* One executeGeneration in progress: the values its closure holds
\* (baseImage, variationPrompts), its loop index i, its local list newImages,
\* and the calls it has issued.  text, gate and asked are history: the text
\* it read, how it was started, and what handleGenerate had validated when
\* it opened the confirmation.
NewRun(base, style, text, variationPrompts, gate, askedAtGate) ==
  [pc |-> "await", i |-> 0, baseImage |-> base, style |-> style,
   variationPrompts |-> variationPrompts, newImages |-> <<>>,
   calls |-> <<GenerationCall(base, variationPrompts[1], style)>>,
   text |-> text, gate |-> gate, asked |-> askedAtGate]

Active(run) == run.pc = "await"

ExecuteGenerationKeepsResults(gate, askedAtGate) ==
  IF baseImage = Null
    THEN /\ error' = Some(ErrNoBaseImage)
         /\ UNCHANGED <<styleVars, panelVars, client, generatedImages, isLoading, progress, runs, nRuns, viewVars>>
  ELSE LET variationPrompts == VariationPrompts(variations) IN
    IF Len(variationPrompts) = 0
      THEN /\ error' = Some(ErrNoVariations)
           /\ UNCHANGED <<styleVars, panelVars, client, generatedImages, isLoading, progress, runs, nRuns, viewVars>>
    ELSE /\ isLoading' = TRUE
         /\ error' = Null
         /\ UNCHANGED <<styleVars, panelVars, client, generatedImages, viewVars>>
         /\ progress' = Some([current |-> 1, total |-> Len(variationPrompts)])
         /\ runs' = Append(SelectSeq(runs, Active),
                           NewRun(Val(baseImage), Style, variations,
                                  variationPrompts, gate, askedAtGate))
         /\ nRuns' = nRuns + 1

\* Line 109-128, up to the first await; a run that ended is forgotten when
\* the next one starts.
ExecuteGeneration(gate, askedAtGate) ==
  IF baseImage = Null
    THEN /\ error' = Some(ErrNoBaseImage)
         /\ UNCHANGED <<styleVars, panelVars, client, generatedImages, isLoading, progress, runs, nRuns, viewVars>>
  ELSE LET variationPrompts == VariationPrompts(variations) IN
    IF Len(variationPrompts) = 0
      THEN /\ error' = Some(ErrNoVariations)
           /\ UNCHANGED <<styleVars, panelVars, client, generatedImages, isLoading, progress, runs, nRuns, viewVars>>
    ELSE /\ isLoading' = TRUE
         /\ error' = Null
         /\ generatedImages' = <<>>
         /\ selectedImages' = SelectAll(<<>>)
         /\ modal' = ModalAfter(modal, <<>>, modalImageIndex)
         /\ edits' = EditsAfter(edits, <<>>, modalImageIndex)
         /\ UNCHANGED <<styleVars, panelVars, client, deleted, missed, blankApplies>>
         /\ progress' = Some([current |-> 1, total |-> Len(variationPrompts)])
         /\ runs' = Append(SelectSeq(runs, Active),
                           NewRun(Val(baseImage), Style, variations,
                                  variationPrompts, gate, askedAtGate))
         /\ nRuns' = nRuns + 1

StyleOfRunIsCurrent(run) == Style

\* The style values the closure of a run holds (line 135-138).
StyleOfRun(run) == run.style

\* newImages.push(image) (line 141).
PushInFront(list, image) == <<image>> \o list
Push(list, image) == Append(list, image)

\* generateVariation resolves (line 141-146), then the next turn of the loop
\* up to its await (line 126-130), or the end of the loop (line 157-158).
\* An API call takes time: Date.now() has advanced when it returns.
GenerationResolves(r) ==
  /\ r \in 1..Len(runs)
  /\ Active(runs[r])
  /\ LET run == runs[r]
         prompt == run.variationPrompts[run.i + 1]
         image == [id |-> <<now + 1, run.i>>, prompt |-> prompt,
                   base64 |-> ResultOf(run.calls[Len(run.calls)])]
         newImages == Push(run.newImages, image)
         total == Len(run.variationPrompts)
     IN  /\ now' = now + 1
         /\ generatedImages' = newImages
         /\ selectedImages' = SelectAll(newImages)
         /\ modal' = ModalAfter(modal, newImages, modalImageIndex)
         /\ edits' = EditsAfter(edits, newImages, modalImageIndex)
         /\ IF run.i + 1 < total
               THEN /\ progress' = Some([current |-> run.i + 2, total |-> total])
                    /\ runs' = [runs EXCEPT ![r] =
                          [run EXCEPT !.i = run.i + 1, !.newImages = newImages,
                             !.calls = Append(run.calls,
                                GenerationCall(run.baseImage,
                                               run.variationPrompts[run.i + 2],
                                               StyleOfRun(run)))]]
                    /\ UNCHANGED isLoading
               ELSE /\ isLoading' = FALSE
                    /\ progress' = Null
                    /\ runs' = [runs EXCEPT ![r] =
                          [run EXCEPT !.pc = "drained", !.i = run.i + 1,
                                      !.newImages = newImages]]
  /\ UNCHANGED <<styleVars, panelVars, client, baseImage, variations, error, presets, savePresetsConfirmation,
                 modalImageIndex, uploads, asked, budgets, deleted, missed, blankApplies>>

GenerationRejectsRetries(r) ==
  /\ r \in 1..Len(runs)
  /\ Active(runs[r])
  /\ now' = now + 1
  /\ runs' = [runs EXCEPT ![r] =
        [@ EXCEPT !.calls = Append(@, runs[r].calls[Len(runs[r].calls)])]]
  /\ UNCHANGED <<styleVars, panelVars, client, baseImage, variations, generatedImages, isLoading, progress, error,
                 presets, savePresetsConfirmation, modalImageIndex, uploads, asked, budgets,
                 viewVars>>

GenerationRejectsStaysLoading(r) ==
  /\ r \in 1..Len(runs)
  /\ Active(runs[r])
  /\ now' = now + 1
  /\ error' = Some(ErrGeneration(runs[r].variationPrompts, runs[r].i))
  /\ runs' = [runs EXCEPT ![r] = [@ EXCEPT !.pc = "aborted"]]
  /\ UNCHANGED <<styleVars, panelVars, client, baseImage, variations, generatedImages, isLoading, progress, presets,
                 savePresetsConfirmation, modalImageIndex, uploads, asked,
                 budgets, viewVars>>

\* generateVariation rejects (line 147-154).
GenerationRejects(r) ==
  /\ r \in 1..Len(runs)
  /\ Active(runs[r])
  /\ now' = now + 1
  /\ error' = Some(ErrGeneration(runs[r].variationPrompts, runs[r].i))
  /\ isLoading' = FALSE
  /\ progress' = Null
  /\ runs' = [runs EXCEPT ![r] = [@ EXCEPT !.pc = "aborted"]]
  /\ UNCHANGED <<styleVars, panelVars, client, baseImage, variations, generatedImages, presets,
                 savePresetsConfirmation, modalImageIndex, uploads, asked,
                 budgets, viewVars>>

----------------------------------------------------------------------------
(* handleGenerate and the two answers of the confirmation                  *)
(* (App.tsx line 161-196, 318-332).                                        *)

\* presets.includes(v) is false
NotPreset(v) == ~Includes(presets, v)

\* The three checks of line 162-174, in their order: the message of the
\* first that fails, or Null.
ValidationErrorListFirst(base, variationPrompts) ==
  IF Len(variationPrompts) = 0 THEN Some(ErrNoVariations)
  ELSE IF Len(variationPrompts) > BatchCeiling THEN Some(ErrBatchTooLarge)
  ELSE IF base = Null THEN Some(ErrNoBaseImage)
  ELSE Null

ValidationError(base, variationPrompts) ==
  IF base = Null THEN Some(ErrNoBaseImage)
  ELSE IF Len(variationPrompts) = 0 THEN Some(ErrNoVariations)
  ELSE IF Len(variationPrompts) > BatchCeiling THEN Some(ErrBatchTooLarge)
  ELSE Null

HandleGenerateDiscardsOnError ==
  LET variationPrompts == VariationPrompts(variations) IN
  IF ValidationError(baseImage, variationPrompts) # Null
    THEN /\ error' = ValidationError(baseImage, variationPrompts)
         /\ generatedImages' = <<>>
         /\ selectedImages' = SelectAll(<<>>)
         /\ modal' = ModalAfter(modal, <<>>, modalImageIndex)
         /\ edits' = EditsAfter(edits, <<>>, modalImageIndex)
         /\ UNCHANGED <<styleVars, panelVars, client, isLoading, progress, runs, nRuns,
                        savePresetsConfirmation, asked, deleted, missed, blankApplies>>
    ELSE LET newVariations == Dedup(SelectSeq(variationPrompts, NotPreset)) IN
      IF Len(newVariations) > 0
        THEN /\ savePresetsConfirmation' = Some(newVariations)
             /\ asked' = Some([variationPrompts |-> variationPrompts,
                               baseImage |-> Val(baseImage)])
             /\ UNCHANGED <<styleVars, panelVars, client, error, generatedImages, isLoading, progress, runs, nRuns,
                            viewVars>>
        ELSE /\ ExecuteGeneration("direct", Null)
             /\ UNCHANGED <<styleVars, panelVars, client, savePresetsConfirmation, asked>>
HandleGenerate ==
  LET variationPrompts == VariationPrompts(variations) IN
  IF ValidationError(baseImage, variationPrompts) # Null
    THEN /\ error' = ValidationError(baseImage, variationPrompts)
         /\ UNCHANGED <<styleVars, panelVars, client, generatedImages, isLoading, progress, runs, nRuns,
                        savePresetsConfirmation, asked, viewVars>>
    ELSE LET newVariations == Dedup(SelectSeq(variationPrompts, NotPreset)) IN
      IF Len(newVariations) > 0
        THEN /\ savePresetsConfirmation' = Some(newVariations)
             /\ asked' = Some([variationPrompts |-> variationPrompts,
                               baseImage |-> Val(baseImage)])
             /\ UNCHANGED <<styleVars, panelVars, client, error, generatedImages, isLoading, progress, runs, nRuns,
                            viewVars>>
        ELSE /\ ExecuteGeneration("direct", Null)
             /\ UNCHANGED <<styleVars, panelVars, client, savePresetsConfirmation, asked>>

\* The Generate button (part_000 line 416-423).
GenerateDisabled == isLoading \/ baseImage = Null

GenerateClick ==
  /\ ~GenerateDisabled
  /\ nRuns < MaxRuns
  /\ HandleGenerate
  /\ UNCHANGED <<styleVars, panelVars, client, baseImage, variations, presets, modalImageIndex, uploads, now, nOps>>

HandleConfirmKeepsPresets ==
  /\ presets' = presets
  /\ savePresetsConfirmation' = Null
  /\ ExecuteGeneration("confirm", asked)

\* "Yes, Save" (line 185-191).
HandleConfirmSavePresets ==
  /\ presets' = IF savePresetsConfirmation # Null
                  THEN Dedup(presets \o Val(savePresetsConfirmation))
                  ELSE presets
  /\ savePresetsConfirmation' = Null
  /\ ExecuteGeneration("confirm", asked)

HandleDeclineOnlyCloses ==
  /\ presets' = presets
  /\ savePresetsConfirmation' = Null
  /\ UNCHANGED <<styleVars, panelVars, client, error, generatedImages, isLoading, progress, runs, nRuns, viewVars>>

\* "No, Continue", the close button and the backdrop (line 193-196, 321).
HandleDeclineSavePresets ==
  /\ presets' = presets
  /\ savePresetsConfirmation' = Null
  /\ ExecuteGeneration("decline", asked)

\* The dialog is rendered while savePresetsConfirmation is set (line 318).
ConfirmSavePresets ==
  /\ savePresetsConfirmation # Null
  /\ nRuns < MaxRuns
  /\ HandleConfirmSavePresets
  /\ asked' = Null
  /\ UNCHANGED <<styleVars, panelVars, client, baseImage, variations, modalImageIndex, uploads, now, nOps>>

DeclineSavePresets ==
  /\ savePresetsConfirmation # Null
  /\ nRuns < MaxRuns
  /\ HandleDeclineSavePresets
  /\ asked' = Null
  /\ UNCHANGED <<styleVars, panelVars, client, baseImage, variations, modalImageIndex, uploads, now, nOps>>

----------------------------------------------------------------------------
(* The detail view (OutputArea.tsx line 61-146, 187-191).                  *)

\* currentImage (line 88): the detail view is rendered when it is defined.
ModalShown ==
  modalImageIndex # Null /\ Val(modalImageIndex) < Len(generatedImages)

\* A click on an image of the grid, which is rendered when nothing is loading
\* and the collection is not empty (line 90-100, 191).
OpenModal(index) ==
  /\ ~isLoading
  /\ index < Len(generatedImages)
  /\ modalImageIndex # Some(index)
  /\ nOps < MaxOps
  /\ nOps' = nOps + 1
  /\ modalImageIndex' = Some(index)
  /\ modal' = ModalAfter(modal, generatedImages, Some(index))
  /\ edits' = EditsAfter(edits, generatedImages, Some(index))
  /\ UNCHANGED <<styleVars, panelVars, client, appVars, uploads, runs, now, asked, nRuns, selectedImages, deleted, missed, blankApplies>>

\* onClose (line 136).
CloseModal ==
  /\ ModalShown
  /\ nOps < MaxOps
  /\ nOps' = nOps + 1
  /\ modalImageIndex' = Null
  /\ modal' = ModalAfter(modal, generatedImages, Null)
  /\ edits' = EditsAfter(edits, generatedImages, Null)
  /\ UNCHANGED <<styleVars, panelVars, client, appVars, uploads, runs, now, asked, nRuns, selectedImages, deleted, missed, blankApplies>>

\* handleDeleteImage (App.tsx line 198-200).
OnlyId(images, id) == SelectSeq(images, LAMBDA img : img.id = id)
WithoutId(images, id) == SelectSeq(images, LAMBDA img : img.id # id)

FocusAfterDeleteNoClamp(index, currentTotal) ==
  IF currentTotal <= 1 THEN Null ELSE index

\* The focus index that handleDeleteFromModal sets (line 79-84).
FocusAfterDelete(index, currentTotal) ==
  IF currentTotal <= 1 THEN Null
  ELSE IF index # Null /\ Val(index) >= currentTotal - 1 THEN Some(Val(index) - 1)
  ELSE index

\* handleDeleteFromModal (line 73-86), on the image the detail view shows.
DeleteFromModal ==
  /\ ModalShown
  /\ nOps < MaxOps
  /\ LET idToDelete == generatedImages[Val(modalImageIndex) + 1].id
         currentTotal == Len(generatedImages)
         images2 == WithoutId(generatedImages, idToDelete)
         index2 == FocusAfterDelete(modalImageIndex, currentTotal)
     IN  /\ generatedImages' = images2
         /\ modalImageIndex' = index2
         /\ selectedImages' = SelectAll(images2)
         /\ modal' = ModalAfter(modal, images2, index2)
         /\ edits' = EditsAfter(edits, images2, index2)
         /\ deleted' = deleted \cup {idToDelete}
         /\ UNCHANGED <<missed, blankApplies>>
  /\ nOps' = nOps + 1
  /\ UNCHANGED <<styleVars, panelVars, client, baseImage, variations, isLoading, progress, error, presets,
                 savePresetsConfirmation, uploads, runs, now, asked, nRuns>>

\* handleNext and handlePrevious (line 61-71); the buttons and the arrow
\* keys are there when totalImages > 1 (ImageModal.tsx line 51-58, 197).
NextImage ==
  /\ ModalShown
  /\ Len(generatedImages) > 1
  /\ nOps < MaxOps
  /\ nOps' = nOps + 1
  /\ LET index2 == Some((Val(modalImageIndex) + 1) % Len(generatedImages))
     IN  /\ modalImageIndex' = index2
         /\ modal' = ModalAfter(modal, generatedImages, index2)
         /\ edits' = EditsAfter(edits, generatedImages, index2)
  /\ UNCHANGED <<styleVars, panelVars, client, appVars, uploads, runs, now, asked, nRuns, selectedImages, deleted, missed, blankApplies>>

PreviousImage ==
  /\ ModalShown
  /\ Len(generatedImages) > 1
  /\ nOps < MaxOps
  /\ nOps' = nOps + 1
  /\ LET index2 == Some((Val(modalImageIndex) - 1 + Len(generatedImages))
                          % Len(generatedImages))
     IN  /\ modalImageIndex' = index2
         /\ modal' = ModalAfter(modal, generatedImages, index2)
         /\ edits' = EditsAfter(edits, generatedImages, index2)
  /\ UNCHANGED <<styleVars, panelVars, client, appVars, uploads, runs, now, asked, nRuns, selectedImages, deleted, missed, blankApplies>>

\* handleSelectImage (line 31-41), from the grid (line 100, 197-199).
SelectImage(id) ==
  /\ ~isLoading
  /\ id \in Ids(generatedImages)
  /\ nOps < MaxOps
  /\ nOps' = nOps + 1
  /\ selectedImages' = IF id \in selectedImages THEN selectedImages \ {id}
                        ELSE selectedImages \cup {id}
  /\ UNCHANGED <<styleVars, panelVars, client, appVars, modalImageIndex, uploads, runs, now, asked, nRuns, modal,
                 edits, deleted, missed, blankApplies>>

----------------------------------------------------------------------------
(* The edits of the detail view (ImageModal.tsx line 110-187, App.tsx      *)
(* line 202-274).                                                          *)

\* isLoading of ImageModal (line 44), which disables the three edit buttons
\* (line 235, 288, 318).
ModalBusy == modal.isRemovingBg \/ modal.isAddingOutline

CurrentImage == generatedImages[Val(modalImageIndex) + 1]

\* What an edit returns for the payload it was given: removeBackground and
\* addOutline (geminiService.ts line 114, 147), and the canvas of
\* handleApplyText (ImageModal.tsx line 141-182).
EditResult(kind, source) == [mime |-> "image/png", data |-> <<kind, source.data>>]

ErrNotFound == <<"Could not find the image to modify.">>
ErrRemoveBackground ==
  <<"Sorry, the background could not be removed. This can happen with complex images. Please try again.">>
ErrAddOutlineAsBackground ==
  <<"Sorry, the background could not be removed. This can happen with complex images. Please try again.">>
ErrAddOutline ==
  <<"Sorry, the outline could not be added. Please try different settings or another image.">>

\* handleRemoveBackground and handleAddOutline up to their await (App.tsx
\* line 203-216, 236-249), on the collection of the render they were made
\* in.  base64ToFile gives a file for every payload of the collection,
\* which all are data URLs with a MIME type.
EditBegins(kind, id) ==
  IF \A k \in 1..Len(generatedImages) : generatedImages[k].id # id
    THEN /\ error' = Some(ErrNotFound)
         /\ UNCHANGED edits
    ELSE LET k == CHOOSE k \in 1..Len(generatedImages) : generatedImages[k].id = id
         IN  /\ edits' = Append(edits, [kind |-> kind, id |-> id,
                                        source |-> generatedImages[k].base64,
                                        attached |-> TRUE])
             /\ UNCHANGED error

\* handleRemoveBg (ImageModal.tsx line 110-113).  When the handler of App
\* returns without a call (image not found), the finally (line 116-118)
\* follows at once and the flag is false again.
RemoveBgStart ==
  /\ ModalShown
  /\ ~ModalBusy
  /\ nOps < MaxOps
  /\ nOps' = nOps + 1
  /\ modal' = [modal EXCEPT !.isRemovingBg = CurrentImage.id \in Ids(generatedImages)]
  /\ EditBegins("removeBg", CurrentImage.id)
  /\ UNCHANGED <<styleVars, panelVars, client, baseImage, variations, generatedImages, isLoading, progress, presets,
                 savePresetsConfirmation, modalImageIndex, uploads, runs, now, asked,
                 nRuns, selectedImages, deleted, missed, blankApplies>>

\* The Outline button, which opens the popover when the view is not busy
\* (line 286-288), and then Apply Outline: handleApplyOutline (line 121-125).
AddOutlineStart ==
  /\ ModalShown
  /\ ~ModalBusy
  /\ nOps < MaxOps
  /\ nOps' = nOps + 1
  /\ modal' = [modal EXCEPT !.isAddingOutline = CurrentImage.id \in Ids(generatedImages)]
  /\ EditBegins("outline", CurrentImage.id)
  /\ UNCHANGED <<styleVars, panelVars, client, baseImage, variations, generatedImages, isLoading, progress, presets,
                 savePresetsConfirmation, modalImageIndex, uploads, runs, now, asked,
                 nRuns, selectedImages, deleted, missed, blankApplies>>

\* The Add Text button (line 233-235).
ToggleTextPopover ==
  /\ ModalShown
  /\ ~ModalBusy
  /\ nOps < MaxOps
  /\ nOps' = nOps + 1
  /\ modal' = [modal EXCEPT !.isTextPopoverOpen = ~modal.isTextPopoverOpen]
  /\ UNCHANGED <<styleVars, panelVars, client, appVars, modalImageIndex, uploads, runs, now, asked, nRuns,
                 selectedImages, edits, deleted, missed, blankApplies>>

\* A mousedown outside the open text popover (line 78-91).
ClickOutsideTextPopover ==
  /\ ModalShown
  /\ modal.isTextPopoverOpen
  /\ nOps < MaxOps
  /\ nOps' = nOps + 1
  /\ modal' = [modal EXCEPT !.isTextPopoverOpen = FALSE]
  /\ UNCHANGED <<styleVars, panelVars, client, appVars, modalImageIndex, uploads, runs, now, asked, nRuns,
                 selectedImages, edits, deleted, missed, blankApplies>>


SetOverlayText(text) ==
  /\ ModalShown
  /\ modal.isTextPopoverOpen
  /\ text # modal.textOverlay.text
  /\ nOps < MaxOps
  /\ nOps' = nOps + 1
  /\ modal' = [modal EXCEPT !.textOverlay.text = text]
  /\ UNCHANGED <<styleVars, panelVars, client, appVars, modalImageIndex, uploads, runs, now, asked, nRuns,
                 selectedImages, edits, deleted, missed, blankApplies>>

\* !textOverlay.text.trim() (line 134).
OverlayTextIsEmpty(text) == text = <<>>
OverlayTextIsBlank(text) == Trim(text) = <<>>

\* Apply Text in the open popover, which no state of the view disables
\* (line 280): handleApplyText up to img.onload (line 133-140, 186).  It
\* returns on a blank text; a 2d context is always given.
ApplyTextStart ==
  /\ ModalShown
  /\ modal.isTextPopoverOpen
  /\ nOps < MaxOps
  /\ nOps' = nOps + 1
  /\ IF OverlayTextIsBlank(modal.textOverlay.text)
       THEN /\ blankApplies' = blankApplies + 1
            /\ UNCHANGED edits
       ELSE /\ edits' = Append(edits, [kind |-> "text", id |-> CurrentImage.id,
                                       source |-> CurrentImage.base64, attached |-> TRUE])
            /\ UNCHANGED blankApplies
  /\ UNCHANGED <<styleVars, panelVars, client, appVars, modalImageIndex, uploads, runs, now, asked, nRuns,
                 selectedImages, modal, deleted, missed>>

WithoutEdit(es, k) == SubSeq(es, 1, k - 1) \o SubSeq(es, k + 1, Len(es))

UpdateImageBase64All(images, id, newBase64) ==
  [k \in 1..Len(images) |-> [images[k] EXCEPT !.base64 = newBase64]]

UpdateImageBase64OrAppend(images, id, newBase64) ==
  IF \E k \in 1..Len(images) : images[k].id = id
    THEN [k \in 1..Len(images) |->
            IF images[k].id = id THEN [images[k] EXCEPT !.base64 = newBase64]
            ELSE images[k]]
    ELSE Append(images, [id |-> id, prompt |-> <<>>, base64 |-> newBase64])

\* prevImages.map(img => img.id === id ? { ...img, base64 } : img)
\* (App.tsx line 221-227, 254-260, 269-273).
UpdateImageBase64(images, id, newBase64) ==
  [k \in 1..Len(images) |->
     IF images[k].id = id THEN [images[k] EXCEPT !.base64 = newBase64] ELSE images[k]]

\* The finally of handleRemoveBg and handleApplyOutline (line 116-118,
\* 128-130) and the end of img.onload (line 184): the setter of the view
\* that started the edit, if it is mounted.
ModalSettles(edit) ==
  IF ~edit.attached THEN modal
  ELSE IF edit.kind = "removeBg" THEN [modal EXCEPT !.isRemovingBg = FALSE]
  ELSE IF edit.kind = "outline" THEN [modal EXCEPT !.isAddingOutline = FALSE]
  ELSE [modal EXCEPT !.isTextPopoverOpen = FALSE]

\* The service resolves (App.tsx line 221-227, 254-260), or the image of
\* handleApplyText has loaded (ImageModal.tsx line 141-185).
EditResolves(k) ==
  /\ k \in 1..Len(edits)
  /\ LET edit == edits[k]
         images2 == UpdateImageBase64(generatedImages, edit.id,
                                     EditResult(edit.kind, edit.source))
     IN  /\ generatedImages' = images2
         /\ selectedImages' = SelectAll(images2)
         /\ modal' = ModalSettles(edit)
         /\ missed' = IF edit.id \in Ids(generatedImages) THEN missed
                       ELSE missed \cup {edit.id}
  /\ edits' = WithoutEdit(edits, k)
  /\ UNCHANGED <<styleVars, panelVars, client, baseImage, variations, isLoading, progress, error, presets,
                 savePresetsConfirmation, modalImageIndex, uploads, runs, now, asked,
                 budgets, deleted, blankApplies>>

\* The service rejects (App.tsx line 228-232, 261-265).
EditRejects(k) ==
  /\ k \in 1..Len(edits)
  /\ edits[k].kind \in {"removeBg", "outline"}
  /\ error' = Some(IF edits[k].kind = "removeBg" THEN ErrRemoveBackground
                    ELSE ErrAddOutline)
  /\ modal' = ModalSettles(edits[k])
  /\ edits' = WithoutEdit(edits, k)
  /\ UNCHANGED <<styleVars, panelVars, client, baseImage, variations, generatedImages, isLoading, progress, presets,
                 savePresetsConfirmation, modalImageIndex, uploads, runs, now, asked,
                 budgets, selectedImages, deleted, missed, blankApplies>>

----------------------------------------------------------------------------
(* The style controls of the panel (part_000 line 368-410), which are      *)
(* never disabled.                                                         *)

\* What the user sets them to.
Colors == {"#4F46E5", "#10B981", "#FF0000"}

StyleFrame ==
  UNCHANGED <<appVars, panelVars, client, modalImageIndex, uploads, runs, now, asked, nRuns,
              viewVars>>

\* Line 368.
SetPrimaryColor(value) ==
  /\ nOps < MaxOps
  /\ value # primaryColor
  /\ primaryColor' = value
  /\ nOps' = nOps + 1
  /\ UNCHANGED <<secondaryColor, useStrictPalette, consistencyLocks, promptTuning>>
  /\ StyleFrame

\* Line 372.
SetSecondaryColor(value) ==
  /\ nOps < MaxOps
  /\ value # secondaryColor
  /\ secondaryColor' = value
  /\ nOps' = nOps + 1
  /\ UNCHANGED <<primaryColor, useStrictPalette, consistencyLocks, promptTuning>>
  /\ StyleFrame

\* Line 380: the checkbox gives the other value.
SetUseStrictPalette ==
  /\ nOps < MaxOps
  /\ useStrictPalette' = ~useStrictPalette
  /\ nOps' = nOps + 1
  /\ UNCHANGED <<primaryColor, secondaryColor, consistencyLocks, promptTuning>>
  /\ StyleFrame

\* Line 387: p => ({...p, [key]: checked}).
SetConsistencyLock(key) ==
  /\ nOps < MaxOps
  /\ consistencyLocks' = [consistencyLocks EXCEPT ![key] = ~consistencyLocks[key]]
  /\ nOps' = nOps + 1
  /\ UNCHANGED <<primaryColor, secondaryColor, useStrictPalette, promptTuning>>
  /\ StyleFrame

\* Line 403.
SetExpressionIntensity(value) ==
  /\ nOps < MaxOps
  /\ value # promptTuning.expressionIntensity
  /\ promptTuning' = [promptTuning EXCEPT !.expressionIntensity = value]
  /\ nOps' = nOps + 1
  /\ UNCHANGED <<primaryColor, secondaryColor, useStrictPalette, consistencyLocks>>
  /\ StyleFrame

\* Line 410.
SetPropSize(value) ==
  /\ nOps < MaxOps
  /\ value # promptTuning.propSize
  /\ promptTuning' = [promptTuning EXCEPT !.propSize = value]
  /\ nOps' = nOps + 1
  /\ UNCHANGED <<primaryColor, secondaryColor, useStrictPalette, consistencyLocks>>
  /\ StyleFrame

----------------------------------------------------------------------------
(* The templates of the panel (part_000 line 183-265, 346-349, 425-440).   *)

\* What the user types as a template name, character by character.
TemplateNames ==
  {<<"H", "e", "r", "o">>, <<" ", "h", "E", "R", "O", " ">>, <<"Z", "o", "o">>, <<" ", " ">>,
   <<>>}

\* name.toLowerCase(), for the letters of those names.
ToLowerCase(name) == [k \in 1..Len(name) |-> LowerChar(name[k])]

SameNameExactly(a, b) == a = b

\* t.name.toLowerCase() === trimmedName.toLowerCase() (line 230).
SameName(a, b) == ToLowerCase(a) = ToLowerCase(b)

PanelFrame ==
  UNCHANGED <<baseImage, generatedImages, isLoading, progress, error, presets,
              savePresetsConfirmation, useStrictPalette, consistencyLocks, promptTuning,
              modalImageIndex, uploads, runs, asked, boot, nRuns, viewVars, client>>

\* Line 346.
OpenSaveModal ==
  /\ nOps < MaxOps
  /\ ~isSaveModalOpen
  /\ isSaveModalOpen' = TRUE
  /\ nOps' = nOps + 1
  /\ UNCHANGED <<variations, primaryColor, secondaryColor, isLoadModalOpen, savedTemplates,
                 storedTemplates, now>>
  /\ PanelFrame

\* Line 436: Cancel, the close button and the backdrop.
CloseSaveModal ==
  /\ nOps < MaxOps
  /\ isSaveModalOpen
  /\ isSaveModalOpen' = FALSE
  /\ nOps' = nOps + 1
  /\ UNCHANGED <<variations, primaryColor, secondaryColor, isLoadModalOpen, savedTemplates,
                 storedTemplates, now>>
  /\ PanelFrame

\* handleSaveTemplate (line 217-247) with updateTemplatesInStorage (line
\* 183-186): the list it stores and sets.  The id of a new template is
\* Date.now(), which has advanced since the last event.
TemplatesAfterSave(templates, name) ==
  LET trimmedName == Trim(name)
      found == {k \in 1..Len(templates) : SameName(templates[k].name, trimmedName)}
  IN  IF found # {}
        THEN LET existing == templates[CHOOSE k \in found : \A j \in found : k <= j]
             IN  [k \in 1..Len(templates) |->
                    IF templates[k].id = existing.id
                      THEN [id |-> templates[k].id, name |-> trimmedName,
                            variations |-> variations, primaryColor |-> primaryColor,
                            secondaryColor |-> secondaryColor]
                      ELSE templates[k]]
        ELSE Append(templates,
                    [id |-> now + 1, name |-> trimmedName, variations |-> variations,
                     primaryColor |-> primaryColor, secondaryColor |-> secondaryColor])

\* The form of the save dialog (line 78-83), which submits a name that is
\* not blank, then handleSaveTemplate.
SaveTemplate(name) ==
  /\ nOps < MaxOps
  /\ isSaveModalOpen
  /\ Trim(name) # <<>>
  /\ LET templates == TemplatesAfterSave(savedTemplates, name)
     IN  /\ savedTemplates' = templates
         /\ storedTemplates' = Some(JsonStringify(templates))
  /\ isSaveModalOpen' = FALSE
  /\ now' = now + 1
  /\ nOps' = nOps + 1
  /\ UNCHANGED <<variations, primaryColor, secondaryColor, isLoadModalOpen>>
  /\ PanelFrame

\* openLoadModal (line 249-251).
OpenLoadModal ==
  /\ nOps < MaxOps
  /\ ~isLoadModalOpen
  /\ isLoadModalOpen' = TRUE
  /\ nOps' = nOps + 1
  /\ UNCHANGED <<variations, primaryColor, secondaryColor, isSaveModalOpen, savedTemplates,
                 storedTemplates, now>>
  /\ PanelFrame

\* Line 427.
CloseLoadModal ==
  /\ nOps < MaxOps
  /\ isLoadModalOpen
  /\ isLoadModalOpen' = FALSE
  /\ nOps' = nOps + 1
  /\ UNCHANGED <<variations, primaryColor, secondaryColor, isSaveModalOpen, savedTemplates,
                 storedTemplates, now>>
  /\ PanelFrame

LoadTemplateKeepsSecondaryColor(k) ==
  /\ nOps < MaxOps
  /\ isLoadModalOpen
  /\ k \in 1..Len(savedTemplates)
  /\ variations' = savedTemplates[k].variations
  /\ primaryColor' = savedTemplates[k].primaryColor
  /\ secondaryColor' = secondaryColor
  /\ isLoadModalOpen' = FALSE
  /\ nOps' = nOps + 1
  /\ UNCHANGED <<isSaveModalOpen, savedTemplates, storedTemplates, now>>
  /\ PanelFrame

\* handleLoadTemplate (line 253-258) on the k-th template of the dialog.
LoadTemplate(k) ==
  /\ nOps < MaxOps
  /\ isLoadModalOpen
  /\ k \in 1..Len(savedTemplates)
  /\ variations' = savedTemplates[k].variations
  /\ primaryColor' = savedTemplates[k].primaryColor
  /\ secondaryColor' = savedTemplates[k].secondaryColor
  /\ isLoadModalOpen' = FALSE
  /\ nOps' = nOps + 1
  /\ UNCHANGED <<isSaveModalOpen, savedTemplates, storedTemplates, now>>
  /\ PanelFrame

\* handleDeleteTemplate (line 260-265) on the k-th template of the dialog,
\* when the user confirms.
DeleteTemplate(k) ==
  /\ nOps < MaxOps
  /\ isLoadModalOpen
  /\ k \in 1..Len(savedTemplates)
  /\ LET templateId == savedTemplates[k].id
         updatedTemplates == SelectSeq(savedTemplates, LAMBDA t : t.id # templateId)
     IN  /\ savedTemplates' = updatedTemplates
         /\ storedTemplates' = Some(JsonStringify(updatedTemplates))
  /\ nOps' = nOps + 1
  /\ UNCHANGED <<variations, primaryColor, secondaryColor, isLoadModalOpen,
                 isSaveModalOpen, now>>
  /\ PanelFrame

----------------------------------------------------------------------------
(* The specification.                                                      *)

Next ==
  \/ \E text \in Texts : SetVariations(text)
  \/ \E file \in Files : UploadStart(file)
  \/ UploadDone
  \/ UploadFails
  \/ GenerateClick
  \/ ConfirmSavePresets
  \/ DeclineSavePresets
  \/ \E r \in 1..Len(runs) : GenerationResolves(r)
  \/ \E r \in 1..Len(runs) : GenerationRejects(r)
  \/ \E index \in 0..(MaxOpen - 1) : OpenModal(index)
  \/ CloseModal
  \/ DeleteFromModal

Spec == Init /\ [][Next]_vars

(* The batch at its ceiling: a session that has a base image, with texts   *)
(* of up to BatchCeiling + 1 lines, one run, and the text box and the      *)
(* upload as the user's operations.                                        *)

InitBatch ==
  /\ baseImage = Some([file |-> FileRobo, base64 |-> FileToBase64(FileRobo)])
  /\ variations \in BatchTexts
  /\ generatedImages = <<>>
  /\ isLoading = FALSE
  /\ progress = Null
  /\ error = Null
  /\ presets = INITIAL_PRESETS
  /\ savePresetsConfirmation = Null
  /\ StyleIsDefault
  /\ PanelOpenedOn(EmptyStore)
  /\ client = ClientAtRest
  /\ modalImageIndex = Null
  /\ uploads = Null
  /\ runs = <<>>
  /\ now = 0
  /\ asked = Null
  /\ selectedImages = {}
  /\ modal = ModalIdle
  /\ edits = <<>>
  /\ deleted = {}
  /\ missed = {}
  /\ blankApplies = 0
  /\ nOps = MaxOps - MaxBatchOps /\ nRuns = MaxRuns - 1

NextBatch ==
  \/ \E text \in BatchTexts : SetVariations(text)
  \/ \E file \in Files : UploadStart(file)
  \/ UploadDone
  \/ UploadFails
  \/ GenerateClick
  \/ ConfirmSavePresets
  \/ DeclineSavePresets
  \/ \E r \in 1..Len(runs) : GenerationResolves(r)
  \/ \E r \in 1..Len(runs) : GenerationRejects(r)

SpecBatch == InitBatch /\ [][NextBatch]_vars

(* The result browser and its edits: a session whose first run, of the     *)
(* two presets of "happy grin\n\nwinking" on robo.png, has drained, with   *)
(* one more run, the detail view, the selection, the three edits and a     *)
(* second upload as the user's operations.                                 *)

BaseRobo == [file |-> FileRobo, base64 |-> FileToBase64(FileRobo)]

\* The collection that run leaves: the entries of its calls 0 and 1.
FirstImages ==
  LET prompts == VariationPrompts(TextScenario)
  IN  [k \in 1..Len(prompts) |->
         [id |-> <<k, k - 1>>, prompt |-> prompts[k],
          base64 |-> ResultOf(GenerationCall(BaseRobo, prompts[k], StyleAtStart))]]

FirstRun ==
  LET prompts == VariationPrompts(TextScenario)
  IN  [pc |-> "drained", i |-> Len(prompts), baseImage |-> BaseRobo,
       style |-> StyleAtStart,
       variationPrompts |-> prompts, newImages |-> FirstImages,
       calls |-> [k \in 1..Len(prompts) |-> GenerationCall(BaseRobo, prompts[k], StyleAtStart)],
       text |-> TextScenario, gate |-> "direct", asked |-> Null]

InitEdits ==
  /\ baseImage = Some(BaseRobo)
  /\ variations = TextScenario
  /\ generatedImages = FirstImages
  /\ isLoading = FALSE
  /\ progress = Null
  /\ error = Null
  /\ presets = INITIAL_PRESETS
  /\ savePresetsConfirmation = Null
  /\ StyleIsDefault
  /\ PanelOpenedOn(EmptyStore)
  /\ client = ClientAtRest
  /\ modalImageIndex = Null
  /\ uploads = Null
  /\ runs = <<FirstRun>>
  /\ now = Len(FirstImages)
  /\ asked = Null
  /\ selectedImages = Ids(FirstImages)
  /\ modal = ModalIdle
  /\ edits = <<>>
  /\ deleted = {}
  /\ missed = {}
  /\ blankApplies = 0
  /\ nOps = MaxOps - MaxEditOps /\ nRuns = MaxRuns - 1

NextEdits ==
  \/ UploadStart(FileMascot)
  \/ UploadDone
  \/ GenerateClick
  \/ \E r \in 1..Len(runs) : GenerationResolves(r)
  \/ \E r \in 1..Len(runs) : GenerationRejects(r)
  \/ \E index \in 0..(MaxOpen - 1) : OpenModal(index)
  \/ CloseModal
  \/ NextImage
  \/ PreviousImage
  \/ DeleteFromModal
  \/ \E id \in Ids(generatedImages) : SelectImage(id)
  \/ RemoveBgStart
  \/ AddOutlineStart
  \/ ToggleTextPopover
  \/ ApplyTextStart
  \/ \E k \in 1..Len(edits) : EditResolves(k)
  \/ \E k \in 1..Len(edits) : EditRejects(k)

SpecEdits == InitEdits /\ [][NextEdits]_vars

(* The text overlay: a session that has the two images of a first run,    *)
(* with the detail view, its text popover, the text input, Apply Text and  *)
(* Remove BG as the user's operations.                                     *)

InitOverlay ==
  /\ baseImage = Some(BaseRobo)
  /\ variations = TextScenario
  /\ generatedImages = FirstImages
  /\ isLoading = FALSE
  /\ progress = Null
  /\ error = Null
  /\ presets = INITIAL_PRESETS
  /\ savePresetsConfirmation = Null
  /\ StyleIsDefault
  /\ PanelOpenedOn(EmptyStore)
  /\ client = ClientAtRest
  /\ modalImageIndex = Null
  /\ uploads = Null
  /\ runs = <<FirstRun>>
  /\ now = Len(FirstImages)
  /\ asked = Null
  /\ selectedImages = Ids(FirstImages)
  /\ modal = ModalIdle
  /\ edits = <<>>
  /\ deleted = {}
  /\ missed = {}
  /\ blankApplies = 0
  /\ nOps = MaxOps - MaxOverlayOps /\ nRuns = MaxRuns - 1

NextOverlay ==
  \/ \E index \in 0..(MaxOpen - 1) : OpenModal(index)
  \/ CloseModal
  \/ NextImage
  \/ ToggleTextPopover
  \/ ClickOutsideTextPopover
  \/ \E text \in {<<"Hello", " ", "World">>, <<"Hi">>, <<>>, <<" ", " ">>} :
       SetOverlayText(text)
  \/ ApplyTextStart
  \/ RemoveBgStart
  \/ \E k \in 1..Len(edits) : EditResolves(k)
  \/ \E k \in 1..Len(edits) : EditRejects(k)

SpecOverlay == InitOverlay /\ [][NextOverlay]_vars

(* handleDeleteImage as a function of the collection and the id: the      *)
(* handler called on what is left of the results of one run, with the id   *)
(* of any of the run's results and with an id of an earlier run.           *)

\* The results of a run of n requests on robo.png, which repeat the two
\* requests of "happy grin\n\nwinking".
RunImages(n) ==
  LET prompts == VariationPrompts(TextScenario)
  IN  [k \in 1..n |->
         [id |-> <<k, k - 1>>, prompt |-> prompts[((k - 1) % Len(prompts)) + 1],
          base64 |-> ResultOf(GenerationCall(BaseRobo, prompts[((k - 1) % Len(prompts)) + 1],
                                             StyleAtStart))]]

DeleteIds == Ids(RunImages(MaxEntries)) \cup {<<0, 0>>}

HandleDeleteImage(id) ==
  /\ generatedImages' = WithoutId(generatedImages, id)
  /\ selectedImages' = SelectAll(WithoutId(generatedImages, id))
  /\ deleted' = deleted \cup {id}
  /\ UNCHANGED <<styleVars, panelVars, client, baseImage, variations, isLoading, progress, error, presets,
                 savePresetsConfirmation, modalImageIndex, uploads, runs, now, asked, budgets,
                 modal, edits, missed, blankApplies>>

InitDelete ==
  /\ baseImage = Some(BaseRobo)
  /\ variations = TextScenario
  /\ \E kept \in SUBSET (1..MaxEntries) :
       generatedImages = SelectSeq(RunImages(MaxEntries), LAMBDA img : img.id[1] \in kept)
  /\ isLoading = FALSE
  /\ progress = Null
  /\ error = Null
  /\ presets = INITIAL_PRESETS
  /\ savePresetsConfirmation = Null
  /\ StyleIsDefault
  /\ PanelOpenedOn(EmptyStore)
  /\ client = ClientAtRest
  /\ modalImageIndex = Null
  /\ uploads = Null
  /\ runs = <<>>
  /\ now = MaxEntries
  /\ asked = Null
  /\ selectedImages = Ids(generatedImages)
  /\ modal = ModalIdle
  /\ edits = <<>>
  /\ deleted = {}
  /\ missed = {}
  /\ blankApplies = 0
  /\ nOps = 0 /\ nRuns = 0

NextDelete == \E id \in DeleteIds : HandleDeleteImage(id)

SpecDelete == InitDelete /\ [][NextDelete]_vars

(* The style controls during a run: a session that has a base image and a  *)
(* text of two requests, with the style controls, a second upload, one     *)
(* run and the answers of the confirmation as the user's operations.       *)

InitStyle ==
  /\ baseImage = Some(BaseRobo)
  /\ variations \in {TextScenario, TextNew}
  /\ generatedImages = <<>>
  /\ isLoading = FALSE
  /\ progress = Null
  /\ error = Null
  /\ presets = INITIAL_PRESETS
  /\ savePresetsConfirmation = Null
  /\ StyleIsDefault
  /\ PanelOpenedOn(EmptyStore)
  /\ client = ClientAtRest
  /\ modalImageIndex = Null
  /\ uploads = Null
  /\ runs = <<>>
  /\ now = 0
  /\ asked = Null
  /\ selectedImages = {}
  /\ modal = ModalIdle
  /\ edits = <<>>
  /\ deleted = {}
  /\ missed = {}
  /\ blankApplies = 0
  /\ nOps = MaxOps - MaxStyleOps /\ nRuns = MaxRuns - 1

NextStyle ==
  \/ \E value \in Colors : SetPrimaryColor(value)
  \/ \E value \in Colors : SetSecondaryColor(value)
  \/ SetUseStrictPalette
  \/ \E key \in {"headAndFaceShape", "shadingStyle"} : SetConsistencyLock(key)
  \/ \E value \in {50, 80} : SetExpressionIntensity(value)
  \/ \E value \in {50, 80} : SetPropSize(value)
  \/ UploadStart(FileMascot)
  \/ UploadDone
  \/ GenerateClick
  \/ ConfirmSavePresets
  \/ DeclineSavePresets
  \/ \E r \in 1..Len(runs) : GenerationResolves(r)
  \/ \E r \in 1..Len(runs) : GenerationRejects(r)

SpecStyle == InitStyle /\ [][NextStyle]_vars

(* The templates: a page opened on a store that holds nothing, a text that *)
(* is no JSON, or the lists a session has written, with the template       *)
(* dialogs, the text box and the primary color as the user's operations.   *)

Stores ==
  LET TemplateHero == [id |-> -2, name |-> <<"H", "e", "r", "o">>, variations |-> TextNew,
                       primaryColor |-> "#FF0000", secondaryColor |-> "#10B981"]
      TemplateZoo == [id |-> -1, name |-> <<"Z", "o", "o">>, variations |-> TextScenario,
                      primaryColor |-> "#4F46E5", secondaryColor |-> "#10B981"]
  IN [presets : {Null, Some(NoJson), Some(JsonStringify(<<<<"robot", " ", "dance">>>>))},
      templates : {Null, Some(NoJson), Some(JsonStringify(<<TemplateHero, TemplateZoo>>))}]

InitTemplates ==
  /\ baseImage = Null
  /\ variations = TextScenario
  /\ generatedImages = <<>>
  /\ isLoading = FALSE
  /\ progress = Null
  /\ error = Null
  /\ \E stored \in Stores :
       /\ presets = PresetsFromStorage(stored.presets)
       /\ PanelOpenedOn(stored)
  /\ client = ClientAtRest
  /\ savePresetsConfirmation = Null
  /\ StyleIsDefault
  /\ modalImageIndex = Null
  /\ uploads = Null
  /\ runs = <<>>
  /\ now = 0
  /\ asked = Null
  /\ selectedImages = {}
  /\ modal = ModalIdle
  /\ edits = <<>>
  /\ deleted = {}
  /\ missed = {}
  /\ blankApplies = 0
  /\ nOps = MaxOps - MaxTemplateOps /\ nRuns = 0

NextTemplates ==
  \/ \E text \in {TextScenario, TextNew} : SetVariations(text)
  \/ \E value \in Colors : SetPrimaryColor(value)
  \/ \E value \in Colors : SetSecondaryColor(value)
  \/ OpenSaveModal
  \/ CloseSaveModal
  \/ \E name \in TemplateNames : SaveTemplate(name)
  \/ OpenLoadModal
  \/ CloseLoadModal
  \/ \E k \in 1..Len(savedTemplates) : LoadTemplate(k)
  \/ \E k \in 1..Len(savedTemplates) : DeleteTemplate(k)

SpecTemplates == InitTemplates /\ [][NextTemplates]_vars

----------------------------------------------------------------------------
(* The Generation Client (src/services/geminiService.ts): one call of      *)
(* generateVariation, removeBackground or addOutline, from the call to     *)
(* the promise it settles, on what ai.models.generateContent does.         *)

\* The range of the two dials (part_000 line 403, 410).
DialMax == 100

\* Line 29-33.
getIntensityStringInclusive(value) ==
  IF value <= 33 THEN "subtle" ELSE IF value <= 66 THEN "moderate" ELSE "exaggerated"
getIntensityString(value) ==
  IF value < 33 THEN "subtle" ELSE IF value < 66 THEN "moderate" ELSE "exaggerated"

\* Line 34-38.
getPropSizeString(value) ==
  IF value < 33 THEN "small" ELSE IF value < 66 THEN "medium" ELSE "large"

\* The two lines under PROMPT TUNING of the full prompt (line 69-71).
TuningLines(promptTuning0) ==
  [expressionIntensity |-> getIntensityString(promptTuning0.expressionIntensity),
   propSize |-> getPropSizeString(promptTuning0.propSize)]

\* The dial values of a call: each dial over its whole range, with the
\* other dial at its initial value or at the same value.
Tunings ==
  {t \in [expressionIntensity : 0..DialMax, propSize : 0..DialMax] :
     t.expressionIntensity = 50 \/ t.propSize = 50 \/ t.expressionIntensity = t.propSize}

\* What generateContent does: it throws, or it gives a response, a list
\* of candidates, each with a content (a list of parts) or with none; a
\* part is a text or an inlineData.
ImagePart(data) == [text |-> Null, inlineData |-> Some([data |-> data])]
CandidateLists ==
  LET TextPart == [text |-> Some("Sorry"), inlineData |-> Null]
      Parts == {TextPart, ImagePart("img1"), ImagePart("img2")}
      PartLists == UNION {[1..n -> Parts] : n \in 0..MaxParts}
      Candidate(parts) == [content |-> Some(parts)]
      Blocked == [content |-> Null]
  IN {<<>>, <<Blocked>>}
       \cup {<<Candidate(parts)>> : parts \in PartLists}
       \cup {<<Candidate(parts), Candidate(<<ImagePart("img2")>>)>> : parts \in PartLists}
Outcomes ==
  {[kind |-> "throws", error |-> e, candidates |-> <<>>] : e \in {"NetworkError", "429 RESOURCE_EXHAUSTED", "400 API key not valid"}}
    \cup {[kind |-> "response", error |-> "", candidates |-> c] : c \in CandidateLists}

Returned(value) == [kind |-> "return", value |-> value]
Thrown(e) == [kind |-> "throw", value |-> e]

\* The error of the throw after the loop (line 101, 137, 183).
NoImageData(op) ==
  CASE op = "generateVariation" -> "No image data found in the API response."
    [] op = "removeBackground" -> "No image data found in API response for background removal."
    [] op = "addOutline" -> "No image data found in API response for adding outline."

\* The error of the throw in the catch (line 105, 141, 187).
ClientFailure(op) ==
  CASE op = "generateVariation" ->
         "Failed to generate image. Please check your prompt or API key."
    [] op = "removeBackground" -> "Failed to remove background via API."
    [] op = "addOutline" -> "Failed to add outline via API."

\* for (const part of ...parts) if (part.inlineData) return part.inlineData.data
RECURSIVE ScanParts(_, _, _)
ScanParts(op, parts, k) ==
  IF k > Len(parts) THEN Thrown(NoImageData(op))
  ELSE IF parts[k].inlineData # Null THEN Returned(Val(parts[k].inlineData).data)
  ELSE ScanParts(op, parts, k + 1)

\* The try block (line 85-101, 126-137, 172-183).  Reading .content of
\* candidates[0] when there is no candidate, and iterating the parts of a
\* candidate without content, throw a TypeError.
TryBlock(op, outcome) ==
  IF outcome.kind = "throws" THEN Thrown(outcome.error)
  ELSE IF outcome.candidates = <<>> THEN Thrown("TypeError")
  ELSE IF outcome.candidates[1].content = Null THEN Thrown("TypeError")
  ELSE ScanParts(op, Val(outcome.candidates[1].content), 1)

\* The promise of the call: the catch block (line 103-106, 138-142,
\* 184-187) replaces whatever the try block threw.
SettledRethrows(op, outcome) == TryBlock(op, outcome)
Settled(op, outcome) ==
  IF TryBlock(op, outcome).kind = "return"
    THEN TryBlock(op, outcome)
    ELSE Thrown(ClientFailure(op))

ClientFrame ==
  UNCHANGED <<appVars, styleVars, panelVars, modalImageIndex, uploads, runs, now, asked,
              budgets, viewVars>>

\* generateVariation is called (line 40-84).
GenerateVariationCalled(promptTuning0) ==
  /\ client.pc = "idle"
  /\ client' = [pc |-> "await", op |-> "generateVariation",
                promptTuning |-> Some(promptTuning0),
                tuningLines |-> Some(TuningLines(promptTuning0)),
                outcome |-> Null, settled |-> Null]
  /\ ClientFrame

\* removeBackground (line 114-125) or addOutline (line 147-171) is called.
EditCalled(op) ==
  /\ client.pc = "idle"
  /\ client' = [pc |-> "await", op |-> op, promptTuning |-> Null, tuningLines |-> Null,
                outcome |-> Null, settled |-> Null]
  /\ ClientFrame

\* generateContent settles and the call with it.
ExternalSettles(outcome) ==
  /\ client.pc = "await"
  /\ client' = [client EXCEPT !.pc = "settled",
                              !.outcome = Some(outcome),
                              !.settled = Some(Settled(client.op, outcome))]
  /\ ClientFrame

NextClient ==
  \/ \E promptTuning0 \in Tunings : GenerateVariationCalled(promptTuning0)
  \/ \E op \in {"removeBackground", "addOutline"} : EditCalled(op)
  \/ \E outcome \in Outcomes : ExternalSettles(outcome)

SpecClient == Init /\ [][NextClient]_vars

(* handleGenerate as a function of the state: the handler called in any    *)
(* state, also where the button that calls it is disabled, on the texts    *)
(* of Spec and a text over the ceiling.                                    *)

HandlerTexts == Texts \cup {TextOverCeiling}

\* Only the calls that can start a run count against MaxRuns.
GenerateCall ==
  /\ nRuns < MaxRuns \/ ValidationError(baseImage, VariationPrompts(variations)) # Null
  /\ HandleGenerate
  /\ UNCHANGED <<styleVars, panelVars, client, baseImage, variations, presets, modalImageIndex, uploads, now, nOps>>

InitHandlers ==
  /\ baseImage = Null
  /\ variations \in HandlerTexts
  /\ generatedImages = <<>>
  /\ isLoading = FALSE
  /\ progress = Null
  /\ error = Null
  /\ presets = INITIAL_PRESETS
  /\ savePresetsConfirmation = Null
  /\ StyleIsDefault
  /\ PanelOpenedOn(EmptyStore)
  /\ client = ClientAtRest
  /\ modalImageIndex = Null
  /\ uploads = Null
  /\ runs = <<>>
  /\ now = 0
  /\ asked = Null
  /\ selectedImages = {}
  /\ modal = ModalIdle
  /\ edits = <<>>
  /\ deleted = {}
  /\ missed = {}
  /\ blankApplies = 0
  /\ nOps = 0 /\ nRuns = MaxRuns - 1

NextHandlers ==
  \/ \E text \in HandlerTexts : SetVariations(text)
  \/ \E file \in Files : UploadStart(file)
  \/ UploadDone
  \/ UploadFails
  \/ GenerateCall
  \/ ConfirmSavePresets
  \/ DeclineSavePresets
  \/ \E r \in 1..Len(runs) : GenerationResolves(r)
  \/ \E r \in 1..Len(runs) : GenerationRejects(r)

SpecHandlers == InitHandlers /\ [][NextHandlers]_vars

----------------------------------------------------------------------------
(* The presets: a page opened on a store without custom presets, with one  *)
(* custom preset, or with a list that repeats a phrase and names a         *)
(* built-in one; robo.png is the base image, and the user types, presses   *)
(* Generate and answers the confirmation.  The third text asks for         *)
(* "Winking", which differs from the built-in "winking" by its case.       *)

InitPresets ==
  /\ baseImage = Some([file |-> FileRobo, base64 |-> FileToBase64(FileRobo)])
  /\ variations \in {TextScenario, TextNew, <<"Winking", "\n", "winking", "\n", "Winking">>}
  /\ generatedImages = <<>>
  /\ isLoading = FALSE
  /\ progress = Null
  /\ error = Null
  /\ \E saved \in {Null,
                   Some(JsonStringify(<< <<"robot", " ", "dance">> >>)),
                   Some(JsonStringify(<< <<"winking">>, <<"robot", " ", "dance">>,
                                         <<"robot", " ", "dance">> >>))} :
       /\ presets = PresetsFromStorage(saved)
       /\ PanelOpenedOn([presets |-> saved, templates |-> Null])
  /\ client = ClientAtRest
  /\ savePresetsConfirmation = Null
  /\ StyleIsDefault
  /\ modalImageIndex = Null
  /\ uploads = Null
  /\ runs = <<>>
  /\ now = 0
  /\ asked = Null
  /\ selectedImages = {}
  /\ modal = ModalIdle
  /\ edits = <<>>
  /\ deleted = {}
  /\ missed = {}
  /\ blankApplies = 0
  /\ nOps = MaxOps - 2 /\ nRuns = 0

NextPresets ==
  \/ \E text \in {TextScenario, TextNew, <<"Winking", "\n", "winking", "\n", "Winking">>} :
       SetVariations(text)
  \/ GenerateClick
  \/ ConfirmSavePresets
  \/ DeclineSavePresets
  \/ \E r \in 1..Len(runs) : GenerationResolves(r)
  \/ \E r \in 1..Len(runs) : GenerationRejects(r)

SpecPresets == InitPresets /\ [][NextPresets]_vars

\* The preset buttons on the same pages: the user types and toggles five
\* phrases where they are presets.
NextToggle ==
  \/ \E text \in {TextScenario, TextNew, <<"Winking", "\n", "winking", "\n", "Winking">>} :
       SetVariations(text)
  \/ \E preset \in {<<"winking">>, <<"shocked">>, <<"robot", " ", "dance">>, <<"Winking">>,
                     <<"happy", " ", "grin">>} :
       TogglePreset(preset)

SpecToggle == InitPresets /\ [][NextToggle]_vars

----------------------------------------------------------------------------
(* The request list of a text, read off the text token by token: a line    *)
(* break ends a request, blanks before the first word of a line are        *)
(* dropped, blanks after a word are kept only if another word follows on   *)
(* the line, and a line without a word gives no request.                   *)

RECURSIVE ScanRequests(_, _, _, _)
ScanRequests(text, k, cur, gap) ==
  LET done == IF cur = <<>> THEN <<>> ELSE <<cur>> IN
  IF k > Len(text) THEN done
  ELSE IF text[k] = "\n" THEN done \o ScanRequests(text, k + 1, <<>>, <<>>)
  ELSE IF text[k] \in {" ", "\t"}
    THEN ScanRequests(text, k + 1, cur, IF cur = <<>> THEN <<>> ELSE Append(gap, text[k]))
  ELSE ScanRequests(text, k + 1, cur \o gap \o <<text[k]>>, <<>>)

RequestList(text) == ScanRequests(text, 1, <<>>, <<>>)

PromptsOf(images) == [k \in 1..Len(images) |-> images[k].prompt]
CallPrompts(run) == [k \in 1..Len(run.calls) |-> run.calls[k].prompt]

Drains(r) == r \in 1..Len(runs') /\ Active(runs[r]) /\ runs'[r].pc = "drained"
Aborts(r) == r \in 1..Len(runs') /\ Active(runs[r]) /\ runs'[r].pc = "aborted"

----------------------------------------------------------------------------
(* C1: for a text with K requests, 1 <= K <= BatchCeiling, a run issues    *)
(* its generation calls for those requests in list order, one call per     *)
(* request and none twice: when the call at index i is in flight or has    *)
(* failed, exactly i + 1 calls have been issued, and when all have         *)
(* succeeded exactly K.                                                    *)
C1_CallsInListOrder ==
  \A r \in 1..Len(runs) :
    LET run == runs[r]
        requests == RequestList(run.text)
        K == Len(requests)
    IN  K \in 1..BatchCeiling =>
          /\ Len(run.calls) = (IF run.pc = "drained" THEN K ELSE run.i + 1)
          /\ Len(run.calls) <= K
          /\ CallPrompts(run) = SubSeq(requests, 1, Len(run.calls))
          /\ run.pc = "drained" => run.i = K /\ Len(run.newImages) = K
          /\ run.pc # "drained" => Len(run.newImages) = run.i

\* A run of BatchCeiling requests whose second call failed: two calls.
C1_Witness ==
  \E r \in 1..Len(runs) :
    /\ runs[r].pc = "aborted"
    /\ runs[r].text = TextAtCeiling
    /\ runs[r].i = 1
    /\ Len(runs[r].calls) = 2

----------------------------------------------------------------------------
(* C2: at most one generation call is in flight at any time: at most one   *)
(* run is active, an active run has exactly one call that has not          *)
(* returned, and every call it issued before that one returned an image.   *)
C2_OneRequestInFlight ==
  /\ Cardinality({r \in 1..Len(runs) : Active(runs[r])}) <= 1
  /\ \A r \in 1..Len(runs) :
       Active(runs[r]) => Len(runs[r].calls) = Len(runs[r].newImages) + 1

----------------------------------------------------------------------------
(* C3: when the call for request i of a run fails, the run aborts at once  *)
(* and the collection then holds exactly the i entries of requests         *)
(* 0..i-1 of that run, in order: no call is issued at that step or later   *)
(* for the run, and the entries are the run's, not rolled back.            *)
C3_AbortKeepsSuccesses ==
  [][\A r \in 1..Len(runs) :
       Aborts(r) =>
         /\ runs'[r].calls = runs[r].calls
         /\ Len(runs[r].calls) = runs[r].i + 1
         /\ generatedImages' = runs[r].newImages
         /\ Len(generatedImages') = runs[r].i
         /\ PromptsOf(generatedImages')
              = SubSeq(RequestList(runs[r].text), 1, runs[r].i)]_vars

----------------------------------------------------------------------------
(* C4: when a generation call of a run fails, the error message is the     *)
(* failure message around the request of the text at the failing index,    *)
(* as trimmed, and of no other request; progress is null and the loading   *)
(* flag is false when the run returns.                                     *)
C4_ErrorNamesFailingPrompt ==
  [][\A r \in 1..Len(runs) :
       Aborts(r) =>
         LET requests == RequestList(runs[r].text)
             failing == requests[runs[r].i + 1]
         IN  /\ runs[r].i + 1 <= Len(requests)
             /\ error' = Some(<<"Failed to generate variation for: \"">>
                                \o failing \o <<"\". Please try again.">>)
             /\ runs[r].calls[Len(runs[r].calls)].prompt = failing
             /\ progress' = Null
             /\ isLoading' = FALSE]_vars

\* The second call of " robot dance \nshocked\nrobot dance" has failed: the
\* message names "shocked".
C4_Witness ==
  /\ \E r \in 1..Len(runs) :
       runs[r].pc = "aborted" /\ runs[r].text = TextNew /\ runs[r].i = 1
  /\ error = Some(<<"Failed to generate variation for: \"", "shocked",
                    "\". Please try again.">>)
  /\ progress = Null
  /\ ~isLoading

----------------------------------------------------------------------------
(* C5: when the last call of a run of K <= BatchCeiling requests           *)
(* succeeds, the collection has K entries and the prompt of the i-th is    *)
(* the i-th request of the text: blank lines give no entry, a line that    *)
(* occurs twice gives two.  "happy grin\n\nwinking" gives two calls and    *)
(* the entries of "happy grin" and "winking", in that order.               *)
C5_EntriesFollowRequests ==
  [][\A r \in 1..Len(runs) :
       Drains(r) =>
         LET requests == RequestList(runs[r].text)
             K == Len(requests)
         IN  K <= BatchCeiling =>
               /\ Len(generatedImages') = K
               /\ PromptsOf(generatedImages') = requests
               /\ Len(runs'[r].calls) = K
               /\ runs[r].text = TextScenario =>
                    PromptsOf(generatedImages')
                      = << <<"happy", " ", "grin">>, <<"winking">> >>
               /\ runs[r].text = TextNew =>
                    PromptsOf(generatedImages')
                      = << <<"robot", " ", "dance">>, <<"shocked">>,
                           <<"robot", " ", "dance">> >>]_vars

\* A drained run of "happy grin\n\nwinking" and its two entries.
C5_Witness ==
  /\ \E r \in 1..Len(runs) :
       runs[r].pc = "drained" /\ runs[r].text = TextScenario
         /\ Len(runs[r].calls) = 2
  /\ PromptsOf(generatedImages) = << <<"happy", " ", "grin">>, <<"winking">> >>

----------------------------------------------------------------------------
(* C6: with a base image, a step that can start a run (Generate, or an     *)
(* answer of the save-presets confirmation) taken on a text of more than   *)
(* BatchCeiling requests issues no generation call and reports the         *)
(* "batch too large" error.                                                *)
C6_NoRunOverCeiling ==
  [][(GenerateClick \/ ConfirmSavePresets \/ DeclineSavePresets)
       /\ baseImage # Null
       /\ Len(RequestList(variations)) > BatchCeiling
     => /\ runs' = runs
        /\ error' = Some(<<"Batch mode supports up to 30 variations per run.">>)]_vars

----------------------------------------------------------------------------
(* C7: without a base image, handleGenerate on any text starts no run,     *)
(* issues no call, does not open the save-presets confirmation and         *)
(* reports the "no base image" error, also where the list is empty or      *)
(* over the ceiling; and as long as there is no base image no run and no   *)
(* confirmation exists.                                                    *)
C7_NoBaseImageFirst ==
  /\ [](baseImage = Null => runs = <<>> /\ savePresetsConfirmation = Null)
  /\ [][GenerateCall /\ baseImage = Null
        => /\ error' = Some(<<"Please upload a base image first.">>)
           /\ runs' = runs
           /\ savePresetsConfirmation' = Null
           /\ isLoading' = isLoading
           /\ generatedImages' = generatedImages]_vars

\* The "no base image" error over a text of BatchCeiling + 1 requests.
C7_Witness ==
  /\ baseImage = Null
  /\ variations = TextOverCeiling
  /\ Len(RequestList(variations)) > BatchCeiling
  /\ error = Some(<<"Please upload a base image first.">>)
  /\ runs = <<>>

----------------------------------------------------------------------------
(* C8: with a base image, Generate on a text without a request (empty, or  *)
(* blanks and line breaks only) starts no run, issues no call, opens no    *)
(* confirmation and reports the "no variations" error, which differs from  *)
(* the "no base image" and the "batch too large" messages.                 *)
C8_NoVariations ==
  [][GenerateClick /\ baseImage # Null /\ RequestList(variations) = <<>>
     => /\ error' = Some(<<"Please enter at least one variation prompt.">>)
        /\ error' # Some(ErrNoBaseImage)
        /\ error' # Some(ErrBatchTooLarge)
        /\ runs' = runs
        /\ savePresetsConfirmation' = savePresetsConfirmation
        /\ isLoading' = isLoading]_vars

\* The "no variations" error over a text of blanks and line breaks.
C8_Witness ==
  /\ baseImage # Null
  /\ variations = TextBlank
  /\ error = Some(<<"Please enter at least one variation prompt.">>)
  /\ runs = <<>>

----------------------------------------------------------------------------
(* C9: the run that an answer of the save-presets confirmation starts      *)
(* issues the request list that handleGenerate validated when it opened    *)
(* the confirmation, against the base image of that moment, whatever       *)
(* changed while the confirmation waited.                                  *)
C9_GateKeepsRequestList ==
  \A r \in 1..Len(runs) :
    runs[r].gate # "direct" =>
      /\ runs[r].asked # Null
      /\ runs[r].variationPrompts = Val(runs[r].asked).variationPrompts
      /\ runs[r].baseImage = Val(runs[r].asked).baseImage

----------------------------------------------------------------------------
(* C10: Generate on a valid list with phrases that are no presets opens    *)
(* the confirmation on those phrases, each once, and starts no run.  Any   *)
(* answer closes the confirmation and starts the run of the current text   *)
(* and base image, the same for "Yes, Save" as for "No, Continue" and the  *)
(* dismissal: on confirm the phrases are added to the presets, on decline  *)
(* the presets stay.  The calls and results of a run are those of its      *)
(* list and base image, whichever answer started it.                       *)
C10_RunOfItsList(run) ==
  /\ CallPrompts(run) = SubSeq(run.variationPrompts, 1, Len(run.calls))
  /\ \A k \in 1..Len(run.calls) :
       run.calls[k].baseImage.data = run.baseImage.base64.data
  /\ Len(run.newImages) <= Len(run.calls)
  /\ \A k \in 1..Len(run.newImages) :
       /\ run.newImages[k].prompt = run.variationPrompts[k]
       /\ run.newImages[k].base64.data
            = <<"variation", run.baseImage.base64.data, run.variationPrompts[k]>>

C10_AnswerStartsRun ==
  LET requests == RequestList(variations) IN
  IF requests = <<>>
    THEN /\ runs' = runs
         /\ error' = Some(<<"Please enter at least one variation prompt.">>)
    ELSE LET run == runs'[Len(runs')] IN
         /\ Len(runs') = Cardinality({r \in 1..Len(runs) : Active(runs[r])}) + 1
         /\ run.pc = "await" /\ run.i = 0 /\ run.newImages = <<>>
         /\ run.variationPrompts = requests
         /\ run.baseImage = Val(baseImage)
         /\ CallPrompts(run) = <<requests[1]>>
         /\ generatedImages' = <<>>
         /\ isLoading' = TRUE
         /\ error' = Null
         /\ progress' = Some([current |-> 1, total |-> Len(requests)])

C10_AnswersStartSameRun ==
  /\ [](\A r \in 1..Len(runs) : C10_RunOfItsList(runs[r]))
  /\ [][LET requests == RequestList(variations)
            new == {requests[k] : k \in 1..Len(requests)} \ Range(presets)
        IN  /\ GenerateClick /\ Len(requests) \in 1..BatchCeiling /\ new # {}
              => /\ savePresetsConfirmation' # Null
                 /\ Range(Val(savePresetsConfirmation')) = new
                 /\ Len(Val(savePresetsConfirmation')) = Cardinality(new)
                 /\ runs' = runs
                 /\ presets' = presets
            /\ ConfirmSavePresets
              => /\ savePresetsConfirmation' = Null
                 /\ C10_AnswerStartsRun
                 /\ SubSeq(presets', 1, Len(presets)) = presets
                 /\ Range(presets')
                      = Range(presets) \cup Range(Val(savePresetsConfirmation))
                 /\ Len(presets') = Cardinality(Range(presets'))
            /\ DeclineSavePresets
              => /\ savePresetsConfirmation' = Null
                 /\ C10_AnswerStartsRun
                 /\ presets' = presets]_vars

\* A run started by "Yes, Save" has drained, and "robot dance" is a preset.
C10_Witness ==
  /\ \E r \in 1..Len(runs) :
       /\ runs[r].gate = "confirm"
       /\ runs[r].pc = "drained"
       /\ runs[r].text = TextNew
  /\ Includes(presets, <<"robot", " ", "dance">>)
  /\ Len(presets) = Len(INITIAL_PRESETS) + 1
  /\ savePresetsConfirmation = Null
  /\ StyleIsDefault
  /\ PanelOpenedOn(EmptyStore)
  /\ client = ClientAtRest

----------------------------------------------------------------------------
(* C11: the step that issues the call for request i of a run of N          *)
(* requests publishes the progress (current = i + 1, total = N) with it,   *)
(* and progress.current does not decrease over a step during which a run   *)
(* stays active.                                                           *)
C11_ProgressBeforeCall ==
  [][/\ \A r \in 1..Len(runs) :
          (/\ r <= Len(runs')
           /\ Active(runs[r]) /\ Active(runs'[r])
           /\ Len(runs'[r].calls) = Len(runs[r].calls) + 1)
          => progress' = Some([current |-> runs'[r].i + 1,
                               total |-> Len(RequestList(runs'[r].text))])
     /\ ((GenerateClick \/ ConfirmSavePresets \/ DeclineSavePresets) /\ runs' # runs)
          => progress' = Some([current |-> 1,
                               total |-> Len(RequestList(variations))])
     /\ (/\ \E r \in 1..Len(runs) : Active(runs[r])
         /\ \E q \in 1..Len(runs') : Active(runs'[q])
         /\ progress # Null /\ progress' # Null)
          => Val(progress').current >= Val(progress).current]_vars

----------------------------------------------------------------------------
(* C12: the step that applies the result of an edit (remove background,    *)
(* outline or text) for an id leaves the length and the order of the       *)
(* collection, every id and every prompt as they were; only the payload    *)
(* of the entry with that id changes, to the result of the edit.           *)
C12_UpdateInPlace ==
  [][\A e \in 1..Len(edits) :
       EditResolves(e) =>
         /\ Len(generatedImages') = Len(generatedImages)
         /\ Cardinality({k \in 1..Len(generatedImages) :
                           generatedImages[k].id = edits[e].id}) <= 1
         /\ \A k \in 1..Len(generatedImages) :
              /\ generatedImages'[k].id = generatedImages[k].id
              /\ generatedImages'[k].prompt = generatedImages[k].prompt
              /\ generatedImages[k].id # edits[e].id
                   => generatedImages'[k] = generatedImages[k]
              /\ generatedImages[k].id = edits[e].id
                   => generatedImages'[k].base64
                        = [mime |-> "image/png",
                           data |-> <<edits[e].kind, edits[e].source.data>>]]_vars

\* The first of the two entries carries an outline, the second is as it was
\* generated.
C12_Witness ==
  /\ Len(generatedImages) = 2
  /\ generatedImages[1].base64.data[1] = "outline"
  /\ generatedImages[2].base64.data[1] = "variation"
  /\ generatedImages[1].prompt = <<"happy", " ", "grin">>

----------------------------------------------------------------------------
(* C13: deleting the entry the detail view shows removes that entry; if    *)
(* it was the only one the focus is cleared, if it was the last in         *)
(* display order the focus becomes the new last index, otherwise the       *)
(* focus keeps its index and designates the entry that followed.  The      *)
(* focus is never out of range after the delete.                           *)
C13_FocusAfterDelete ==
  [][DeleteFromModal =>
       LET total == Len(generatedImages)
           index == Val(modalImageIndex)
       IN  /\ Len(generatedImages') = total - 1
           /\ total = 1 => modalImageIndex' = Null
           /\ (total > 1 /\ index = total - 1) => modalImageIndex' = Some(total - 2)
           /\ (total > 1 /\ index < total - 1)
                => /\ modalImageIndex' = Some(index)
                   /\ generatedImages'[index + 1] = generatedImages[index + 2]
           /\ modalImageIndex' # Null
                => Val(modalImageIndex') \in 0..(Len(generatedImages') - 1)]_vars

\* The last of two entries has been deleted: the focus is on the entry left.
C13_Witness ==
  /\ Len(generatedImages) = 1
  /\ modalImageIndex = Some(0)
  /\ \E id \in deleted : id[2] = 1
  /\ generatedImages[1].id[2] = 0

----------------------------------------------------------------------------
(* C14: the ids of the entries in the collection are pairwise different    *)
(* at all times, an in-place edit keeps every id, and an id that has been  *)
(* deleted is never the id of an entry of the collection afterwards.       *)
C14_IdsUniqueNeverReused ==
  /\ [](/\ \A j, k \in 1..Len(generatedImages) :
              generatedImages[j].id = generatedImages[k].id => j = k
        /\ \A k \in 1..Len(generatedImages) : generatedImages[k].id \notin deleted)
  /\ [][\A e \in 1..Len(edits) :
          EditResolves(e) =>
            /\ Len(generatedImages') = Len(generatedImages)
            /\ \A k \in 1..Len(generatedImages) :
                 generatedImages'[k].id = generatedImages[k].id]_vars

----------------------------------------------------------------------------
(* C15: the selection is always a subset of the ids of the collection; a   *)
(* delete removes the deleted id from the selection; and whenever the      *)
(* collection is replaced (a run starts, a run publishes its results, an   *)
(* upload completes) the selection is exactly the set of all current ids.  *)
C15_SelectionWithinCollection ==
  /\ [](selectedImages \subseteq {generatedImages[k].id : k \in 1..Len(generatedImages)})
  /\ [][/\ DeleteFromModal
             => generatedImages[Val(modalImageIndex) + 1].id \notin selectedImages'
        /\ ((UploadDone \/ GenerateClick \/ \E r \in 1..Len(runs) : GenerationResolves(r))
              /\ generatedImages' # generatedImages)
             => selectedImages'
                  = {generatedImages'[k].id : k \in 1..Len(generatedImages')}]_vars

\* An entry has been deleted, and a run in progress has published one
\* result, which is the selection.
C15_Witness ==
  /\ deleted # {}
  /\ \E r \in 1..Len(runs) : Active(runs[r])
  /\ Len(generatedImages) = 1
  /\ selectedImages = {generatedImages[1].id}

----------------------------------------------------------------------------
(* C16: while a remote edit (remove background or outline) is in flight    *)
(* for an image, the detail view showing that image has its edit controls  *)
(* disabled, also after it has moved to another image and back; so at      *)
(* most one remote edit is in flight for an image at any time.             *)
C16_OneRemoteEditPerImage ==
  /\ \A k \in 1..Len(edits) :
       (/\ edits[k].kind \in {"removeBg", "outline"}
        /\ ModalShown
        /\ CurrentImage.id = edits[k].id) => ModalBusy
  /\ \A j, k \in 1..Len(edits) :
       (/\ edits[j].kind \in {"removeBg", "outline"}
        /\ edits[k].kind \in {"removeBg", "outline"}
        /\ edits[j].id = edits[k].id) => j = k

----------------------------------------------------------------------------
(* C17: when a remove-background or outline call fails, the collection is  *)
(* left as it is, the error is the message of that operation, and the      *)
(* runs, the loading flag and the progress are left as they are.           *)
C17_FailedEditLeavesAll ==
  [][\A e \in 1..Len(edits) :
       EditRejects(e) =>
         /\ generatedImages' = generatedImages
         /\ edits[e].kind = "removeBg"
              => error' = <<<<"Sorry, the background could not be removed. This can happen with complex images. Please try again.">>>>
         /\ edits[e].kind = "outline"
              => error' = <<<<"Sorry, the outline could not be added. Please try different settings or another image.">>>>
         /\ runs' = runs
         /\ isLoading' = isLoading
         /\ progress' = progress]_vars

\* An outline call has failed while a run is in progress with one result
\* published.
C17_Witness ==
  /\ error = <<<<"Sorry, the outline could not be added. Please try different settings or another image.">>>>
  /\ isLoading
  /\ progress # Null
  /\ \E r \in 1..Len(runs) : Active(runs[r])
  /\ Len(generatedImages) = 1
  /\ generatedImages[1].base64.data[1] = "variation"

----------------------------------------------------------------------------
(* C18: when the result of an edit (remove background, outline or text)    *)
(* is applied for an id that is not in the collection any more, because    *)
(* the entry was deleted or the collection was replaced, the collection    *)
(* and the error are left as they are.                                     *)
C18_EditOfMissingIdIsNoOp ==
  [][\A e \in 1..Len(edits) :
       (/\ EditResolves(e)
        /\ \A k \in 1..Len(generatedImages) : generatedImages[k].id # edits[e].id)
         => /\ generatedImages' = generatedImages
            /\ error' = error]_vars

\* The result of an edit came for an entry that had been deleted; the entry
\* that is left is as it was generated and no error is shown.
C18_Witness ==
  /\ \E id \in missed : id \in deleted
  /\ Len(generatedImages) = 1
  /\ generatedImages[1].id \notin deleted
  /\ generatedImages[1].base64.data[1] = "variation"
  /\ edits = <<>>
  /\ error = Null

----------------------------------------------------------------------------
(* C19: once an upload has replaced the base image, the collection holds   *)
(* no entry generated from an earlier base image: every entry of the       *)
(* collection is a variation of the current base image, also when the      *)
(* upload completed while a run was in progress.                           *)
C19_NoEntryOfEarlierBaseImage ==
  baseImage # Null =>
    \A k \in 1..Len(generatedImages) :
      /\ generatedImages[k].base64.data[1] = "variation"
      /\ generatedImages[k].base64.data[2] = Val(baseImage).base64.data

----------------------------------------------------------------------------
(* C20: a delete or an in-place edit made while a run is in progress       *)
(* stays in effect: when the run publishes a later result, no deleted      *)
(* entry is in the collection, and every entry that was in the collection  *)
(* before is still there with the payload it had.                          *)
C20_EditsSurvivePublish ==
  [][\A r \in 1..Len(runs) :
       GenerationResolves(r) =>
         /\ \A k \in 1..Len(generatedImages') : generatedImages'[k].id \notin deleted
         /\ \A j \in 1..Len(generatedImages) :
              \E k \in 1..Len(generatedImages') : generatedImages'[k] = generatedImages[j]]_vars

----------------------------------------------------------------------------
(* The batch session under the assumption that every generation call       *)
(* settles: the call a run is waiting for resolves or rejects.             *)
SpecSettling ==
  /\ InitBatch
  /\ [][NextBatch]_vars
  /\ \A r \in 1..MaxRuns : WF_vars(GenerationResolves(r) \/ GenerationRejects(r))

\* A run ends at this step: its last call resolves, or a call rejects.
RunEnds(r) ==
  /\ r \in 1..Len(runs)
  /\ Active(runs[r])
  /\ r <= Len(runs')
  /\ ~Active(runs'[r])

(* C21: provided every generation call settles, a state with a run in      *)
(* progress leads to a state where no run is in progress, loading is       *)
(* false, progress is null and Generate is enabled; and the step at which  *)
(* a run ends, by its last success or by a failure, sets loading to false  *)
(* and progress to null and leaves Generate enabled.                       *)
C21_RunsTerminateRetryable ==
  /\ (\E r \in 1..Len(runs) : Active(runs[r]))
       ~> (/\ \A r \in 1..Len(runs) : ~Active(runs[r])
           /\ ~isLoading /\ progress = Null /\ ~GenerateDisabled)
  /\ [][\A r \in 1..Len(runs) :
          RunEnds(r) => (~isLoading' /\ progress' = Null /\ ~GenerateDisabled')]_vars

\* A run has ended by the failure of its second call, and the session is
\* idle with the entry of the first call.
C21_Witness ==
  /\ Len(runs) = 1
  /\ runs[1].pc = "aborted"
  /\ runs[1].i = 1
  /\ Len(generatedImages) = 1
  /\ ~isLoading /\ progress = Null /\ ~GenerateDisabled

----------------------------------------------------------------------------
(* C22: while a remove-background or outline call is in flight for the     *)
(* image the detail view shows, the indicator of that operation is set;    *)
(* and when such a call settles, by success or by failure, and no other    *)
(* call is in flight for the image shown, no indicator is set.             *)
C22_IndicatorFollowsEdit ==
  /\ [](ModalShown =>
          \A k \in 1..Len(edits) :
            edits[k].id = CurrentImage.id =>
              /\ edits[k].kind = "removeBg" => modal.isRemovingBg
              /\ edits[k].kind = "outline" => modal.isAddingOutline)
  /\ [][\A e \in 1..Len(edits) :
          (/\ EditResolves(e) \/ EditRejects(e)
           /\ edits[e].kind \in {"removeBg", "outline"}
           /\ ModalShown'
           /\ \A k \in 1..Len(edits') :
                edits'[k].kind = "text" \/ edits'[k].id # CurrentImage'.id)
            => (~modal'.isRemovingBg /\ ~modal'.isAddingOutline)]_vars

----------------------------------------------------------------------------
(* C23: every generation call of a run carries the colors, the strict      *)
(* palette flag, the five locks, the two dials and the base image of the   *)
(* run's first call, and the first call of a run carries the values the    *)
(* controls and the base image have when the run starts, whatever the      *)
(* user changes or uploads while the run is in progress.                   *)
C23_StyleFixedPerRun ==
  /\ [](\A r \in 1..Len(runs) : \A k \in 1..Len(runs[r].calls) :
          LET first == runs[r].calls[1]
              call == runs[r].calls[k]
          IN  /\ call.colors = first.colors
              /\ call.useStrictPalette = first.useStrictPalette
              /\ call.consistencyLocks = first.consistencyLocks
              /\ call.promptTuning = first.promptTuning
              /\ call.baseImage = first.baseImage)
  /\ [][((GenerateClick \/ ConfirmSavePresets \/ DeclineSavePresets) /\ runs' # runs) =>
          LET first == runs'[Len(runs')].calls[1]
          IN  /\ first.colors = [primary |-> primaryColor, secondary |-> secondaryColor]
              /\ first.useStrictPalette = useStrictPalette
              /\ first.consistencyLocks = consistencyLocks
              /\ first.promptTuning = promptTuning
              /\ first.baseImage = [data |-> Val(baseImage).base64.data,
                                    mimeType |-> Val(baseImage).file.type]]_vars

\* A run has issued its second call with the values of its first, after the
\* primary color was changed and another image was uploaded during the run.
C23_Witness ==
  \E r \in 1..Len(runs) :
    /\ Len(runs[r].calls) = 2
    /\ runs[r].calls[2].colors.primary # primaryColor
    /\ runs[r].calls[2].baseImage.data # Val(baseImage).base64.data

----------------------------------------------------------------------------
(* C24: the base image, when there is one, has MIME type png, jpeg or      *)
(* webp; and the upload of a file of another type, or of a file whose      *)
(* name contains person, photo, selfie or portrait in any case, sets an    *)
(* error, starts no read and leaves the base image and the collection as   *)
(* they are.                                                               *)
C24_OnlyAcceptedBaseImages ==
  /\ [](baseImage # Null =>
          /\ Val(baseImage).file.type \in {"image/png", "image/jpeg", "image/webp"}
          /\ Val(baseImage).base64.mime = Val(baseImage).file.type
          /\ Val(baseImage).file.name # NameSelfie)
  /\ [][\A file \in {FileAnim, FileSelfie} :
          UploadStart(file) =>
            /\ error' = IF file = FileAnim
                          THEN <<<<"Invalid file type. Please upload a PNG, JPG, or WebP file.">>>>
                          ELSE <<<<"Real person photos are not supported. Please use an illustrated avatar or mascot.">>>>
            /\ uploads' = Null
            /\ baseImage' = baseImage
            /\ generatedImages' = generatedImages]_vars

\* The file MySelfie.jpg has been refused while robo.png is the base image
\* and the collection holds a result.
C24_Witness ==
  /\ error = <<<<"Real person photos are not supported. Please use an illustrated avatar or mascot.">>>>
  /\ baseImage # Null
  /\ Val(baseImage).file.name = NameRobo
  /\ Len(generatedImages) >= 1
  /\ uploads = Null

----------------------------------------------------------------------------
(* C25: no two templates have names that are equal ignoring case, and no   *)
(* two have the same id; a save under a name that, trimmed, equals         *)
(* ignoring case the name of a template replaces the variations and the    *)
(* colors of that template by the current ones, at its position and with   *)
(* its id, and leaves the other templates and their number as they are;    *)
(* a save under any other name appends exactly one template with the       *)
(* current values.                                                         *)
C25_TemplateNamesUnique ==
  /\ [](\A j, k \in 1..Len(savedTemplates) :
          (\/ ToLowerCase(savedTemplates[j].name) = ToLowerCase(savedTemplates[k].name)
           \/ savedTemplates[j].id = savedTemplates[k].id) => j = k)
  /\ [][\A name \in TemplateNames :
          SaveTemplate(name) =>
            LET same == {k \in 1..Len(savedTemplates) :
                           ToLowerCase(savedTemplates[k].name) = ToLowerCase(Trim(name))}
                saved == [name |-> Trim(name), variations |-> variations,
                          primaryColor |-> primaryColor, secondaryColor |-> secondaryColor]
                Data(t) == [name |-> t.name, variations |-> t.variations,
                            primaryColor |-> t.primaryColor,
                            secondaryColor |-> t.secondaryColor]
            IN  IF same # {}
                  THEN /\ Len(savedTemplates') = Len(savedTemplates)
                       /\ \A k \in 1..Len(savedTemplates) :
                            /\ savedTemplates'[k].id = savedTemplates[k].id
                            /\ k \in same => Data(savedTemplates'[k]) = saved
                            /\ k \notin same => savedTemplates'[k] = savedTemplates[k]
                  ELSE /\ Len(savedTemplates') = Len(savedTemplates) + 1
                       /\ SubSeq(savedTemplates', 1, Len(savedTemplates)) = savedTemplates
                       /\ Data(savedTemplates'[Len(savedTemplates')]) = saved]_vars

\* The template Hero has been saved again as " hERO " with another text, and
\* the template Zoo after it is as it was stored.
C25_Witness ==
  /\ Len(savedTemplates) = 2
  /\ savedTemplates[1].id = -2
  /\ savedTemplates[1].name = <<"h", "E", "R", "O">>
  /\ savedTemplates[1].variations = TextScenario
  /\ savedTemplates[2].name = <<"Z", "o", "o">>
  /\ savedTemplates[2].id = -1

----------------------------------------------------------------------------
(* C26: when the text stored for the custom presets is no JSON, the preset *)
(* list is the built-in list; when the text stored for the templates is    *)
(* no JSON, the page opens with no template and with that text removed     *)
(* from the store, and the templates and the store afterwards are those    *)
(* the session itself has saved.                                           *)
C26_CorruptStoreIsAbsent ==
  /\ (boot.templates = <<[json |-> FALSE, value |-> "{oops"]>>
        => savedTemplates = <<>> /\ storedTemplates = Null)
  /\ [](boot.presets = <<[json |-> FALSE, value |-> "{oops"]>>
          => presets = INITIAL_PRESETS)
  /\ [](boot.templates = <<[json |-> FALSE, value |-> "{oops"]>>
          => /\ \A k \in 1..Len(savedTemplates) : savedTemplates[k].id \in 1..now
             /\ storedTemplates \in {Null, <<[json |-> TRUE, value |-> savedTemplates]>>})

\* The page was opened on a store with two texts that are no JSON, and a
\* template has been saved since.
C26_Witness ==
  /\ boot.presets = <<[json |-> FALSE, value |-> "{oops"]>>
  /\ boot.templates = <<[json |-> FALSE, value |-> "{oops"]>>
  /\ Len(savedTemplates) = 1
  /\ savedTemplates[1].name = <<"Z", "o", "o">>
  /\ storedTemplates = <<[json |-> TRUE, value |-> savedTemplates]>>
  /\ presets = INITIAL_PRESETS

----------------------------------------------------------------------------
\* The image payloads of a response, in the order of its candidates and of
\* their parts.
RECURSIVE ImagePayloads(_)
ImagePayloads(candidates) ==
  IF candidates = <<>> THEN <<>>
  ELSE LET parts == IF Head(candidates).content = <<>> THEN <<>>
                    ELSE Head(candidates).content[1]
           data(k) == parts[k].inlineData[1].data
       IN SelectSeq([k \in 1..Len(parts) |-> IF parts[k].inlineData = <<>> THEN "" ELSE data(k)],
                    LAMBDA d : d # "")
            \o ImagePayloads(Tail(candidates))

FixedFailure ==
  [generateVariation |-> "Failed to generate image. Please check your prompt or API key.",
   removeBackground |-> "Failed to remove background via API.",
   addOutline |-> "Failed to add outline via API."]

(* C27: a settled call of the Generation Client has failed when the        *)
(* external call threw and when its response holds no image payload;       *)
(* every failure carries the one fixed message of the operation; and a     *)
(* call that succeeded returns the first image payload of the response.    *)
C27_ClientFailsGenericReturnsFirst ==
  client.pc = "settled" =>
    LET external == client.outcome[1]
        result == client.settled[1]
    IN /\ external.kind = "throws" => result.kind = "throw"
       /\ (external.kind = "response" /\ ImagePayloads(external.candidates) = <<>>)
            => result.kind = "throw"
       /\ result.kind = "throw" => result.value = FixedFailure[client.op]
       /\ result.kind = "return"
            => /\ external.kind = "response"
               /\ ImagePayloads(external.candidates) # <<>>
               /\ result.value = Head(ImagePayloads(external.candidates))

\* removeBackground has failed on a transport error.
C27_Witness ==
  /\ client.pc = "settled"
  /\ client.op = "removeBackground"
  /\ client.outcome[1].kind = "throws"
  /\ client.outcome[1].error = "429 RESOURCE_EXHAUSTED"
  /\ client.settled[1] = [kind |-> "throw", value |-> "Failed to remove background via API."]

(* C28: in every call of generateVariation, for every dial value from 0    *)
(* to 100, the prompt names the low bucket for a value under 33, the       *)
(* middle bucket for a value from 33 to 65 and the high bucket for a value *)
(* from 66 on: subtle, moderate, exaggerated for the expression intensity  *)
(* and small, medium, large for the prop size.                             *)
C28_DialBuckets ==
  (client.pc # "idle" /\ client.op = "generateVariation") =>
    LET dials == client.promptTuning[1]
        lines == client.tuningLines[1]
        bucket(v) == IF v \in 0..32 THEN 1 ELSE IF v \in 33..65 THEN 2 ELSE 3
    IN /\ dials.expressionIntensity \in 0..100
       /\ dials.propSize \in 0..100
       /\ lines.expressionIntensity
            = <<"subtle", "moderate", "exaggerated">>[bucket(dials.expressionIntensity)]
       /\ lines.propSize = <<"small", "medium", "large">>[bucket(dials.propSize)]

\* A call with both dials at 33, the lower edge of the middle bucket.
C28_Witness ==
  /\ client.pc = "await"
  /\ client.op = "generateVariation"
  /\ client.promptTuning = <<[expressionIntensity |-> 33, propSize |-> 33]>>
  /\ client.tuningLines = <<[expressionIntensity |-> "moderate", propSize |-> "medium"]>>

----------------------------------------------------------------------------
(* C29: Apply Text on an overlay text that is empty or consists of blanks  *)
(* changes nothing: the collection, the error and the open text popover    *)
(* are as before, and no edit is started that would change them later.     *)
C29_BlankTextIsNoOp ==
  [][(ApplyTextStart /\ modal.textOverlay.text \in {<<>>, <<" ", " ">>})
       => /\ generatedImages' = generatedImages
          /\ error' = error
          /\ modal'.isTextPopoverOpen = modal.isTextPopoverOpen
          /\ modal'.isTextPopoverOpen
          /\ edits' = edits]_vars

\* Apply Text has returned on a text of two blanks, and the popover is
\* still open on that text.
C29_Witness ==
  /\ blankApplies = 1
  /\ ModalShown
  /\ modal.isTextPopoverOpen
  /\ modal.textOverlay.text = <<" ", " ">>
  /\ edits = <<>>
  /\ error = Null
  /\ nOps = MaxOps - 2

----------------------------------------------------------------------------
\* Run r publishes in this step: its list of results changes.
Publishes(r) == r \in 1..Len(runs) /\ r <= Len(runs') /\ runs'[r].newImages # runs[r].newImages

(* C30: a run starts by publishing the empty list, and every list it       *)
(* publishes afterwards is the list it published before with one entry,    *)
(* the result of the next request, added at the end; so the entries of     *)
(* every list it has published are the results of the first requests of    *)
(* the run, in the order of the requests.                                  *)
C30_SnapshotsGrowByOne ==
  /\ [][Len(runs') > Len(runs)
          => generatedImages' = <<>> /\ runs'[Len(runs')].newImages = <<>>]_vars
  /\ [][\A r \in 1..Len(runs) :
          Publishes(r) =>
            LET before == runs[r].newImages
                after == runs'[r].newImages
            IN /\ generatedImages' = after
               /\ Len(after) = Len(before) + 1
               /\ \A k \in 1..Len(before) : after[k] = before[k]
               /\ after[Len(after)].prompt = runs[r].variationPrompts[Len(after)]]_vars
  /\ [](\A r \in 1..Len(runs) :
          /\ Len(runs[r].newImages) <= Len(runs[r].variationPrompts)
          /\ \A k \in 1..Len(runs[r].newImages) :
               /\ runs[r].newImages[k].prompt = runs[r].variationPrompts[k]
               /\ runs[r].newImages[k].id[2] = k - 1)

\* A run of 30 requests has published its 30th list.
C30_Witness ==
  \E r \in 1..Len(runs) :
    /\ runs[r].pc = "drained"
    /\ Len(runs[r].newImages) = 30
    /\ generatedImages = runs[r].newImages
    /\ \A k \in 1..30 : generatedImages[k].prompt = runs[r].variationPrompts[k]

----------------------------------------------------------------------------
\* A run starts in this step.
RunStarts == nRuns' = nRuns + 1

(* C31, as the claim states it: the step that starts a run leaves the      *)
(* collection empty, no error, loading true and progress (0, N).           *)
C31_FreshRunProgressZero ==
  [][RunStarts =>
       /\ generatedImages' = <<>>
       /\ error' = <<>>
       /\ isLoading'
       /\ progress' = <<[current |-> 0, total |-> Len(RequestList(variations))]>>]_vars

(* C31, amended: the step that starts a run leaves the collection empty,   *)
(* no error, loading true and progress (1, N), with the first call of the  *)
(* run issued and no result of it yet; and the entries of the collection   *)
(* always are results of one run.                                          *)
C31_FreshRunDiscardsResults ==
  /\ [][RunStarts =>
          /\ generatedImages' = <<>>
          /\ error' = <<>>
          /\ isLoading'
          /\ progress' = <<[current |-> 1, total |-> Len(RequestList(variations))]>>
          /\ Len(runs'[Len(runs')].calls) = 1
          /\ runs'[Len(runs')].newImages = <<>>]_vars
  /\ [](generatedImages # <<>> =>
          \E r \in 1..Len(runs) :
            \A k \in 1..Len(generatedImages) :
              \E j \in 1..Len(runs[r].newImages) :
                generatedImages[k].id = runs[r].newImages[j].id)

\* A second run has just started, after a first run whose two results were
\* in the collection: its first call is in flight and the collection is
\* empty.
C31_Witness ==
  /\ nRuns = MaxRuns
  /\ now = 2
  /\ Len(runs) = 1
  /\ runs[1].pc = "await"
  /\ runs[1].i = 0
  /\ generatedImages = <<>>
  /\ error = <<>>
  /\ isLoading
  /\ progress = <<[current |-> 1, total |-> Len(runs[1].variationPrompts)]>>

----------------------------------------------------------------------------
\* The request list of the text fails a check of handleGenerate.
FailsValidation ==
  \/ baseImage = <<>>
  \/ Len(RequestList(variations)) = 0
  \/ Len(RequestList(variations)) > 30

(* C32: when handleGenerate is called without a base image, with no        *)
(* request or with more than 30 requests, it sets one of the three         *)
(* validation messages and changes nothing else: the collection, loading,  *)
(* progress, the presets and the pending confirmation are as before, and   *)
(* no run is started and no call is issued.                                *)
C32_ValidationFailureOnlySetsError ==
  [][(GenerateCall /\ FailsValidation) =>
       /\ error' \in {<<<<"Please upload a base image first.">>>>,
                      <<<<"Please enter at least one variation prompt.">>>>,
                      <<<<"Batch mode supports up to 30 variations per run.">>>>}
       /\ generatedImages' = generatedImages
       /\ isLoading' = isLoading
       /\ progress' = progress
       /\ presets' = presets
       /\ savePresetsConfirmation' = savePresetsConfirmation
       /\ runs' = runs
       /\ nRuns' = nRuns]_vars

\* Generate was refused for a text of 31 requests while the results of a
\* run are in the collection.
C32_Witness ==
  /\ error = <<<<"Batch mode supports up to 30 variations per run.">>>>
  /\ Len(RequestList(variations)) = 31
  /\ generatedImages # <<>>
  /\ ~isLoading

----------------------------------------------------------------------------
(* C33: handleDeleteImage called with the id of an entry gives the         *)
(* collection without that one entry, the entries before and after it as   *)
(* they were and in their order, so one entry less; called with an id      *)
(* that no entry has, it gives the collection as it was.                   *)
C33_DeleteRemovesExactlyOne ==
  [][\A id \in DeleteIds :
       HandleDeleteImage(id) =>
         IF \E p \in 1..Len(generatedImages) : generatedImages[p].id = id
           THEN \E p \in 1..Len(generatedImages) :
                  /\ generatedImages[p].id = id
                  /\ Len(generatedImages') = Len(generatedImages) - 1
                  /\ generatedImages' = SubSeq(generatedImages, 1, p - 1)
                                          \o SubSeq(generatedImages, p + 1, Len(generatedImages))
           ELSE generatedImages' = generatedImages]_vars

\* The second of four results was deleted, and the id of an earlier run
\* was passed as well: the first, third and fourth are left.
C33_Witness ==
  /\ deleted = {<<2, 1>>, <<0, 0>>}
  /\ Len(generatedImages) = 3
  /\ generatedImages[1].id = <<1, 0>>
  /\ generatedImages[2].id = <<3, 2>>
  /\ generatedImages[3].id = <<4, 3>>
  /\ generatedImages[1].prompt = generatedImages[2].prompt

----------------------------------------------------------------------------
(* C34: whenever the focus index of the detail view is set, it is an index *)
(* of the collection: at least 0 and less than the number of entries.      *)
C34_FocusIndexValid ==
  modalImageIndex # <<>> =>
    /\ modalImageIndex[1] >= 0
    /\ modalImageIndex[1] < Len(generatedImages)

----------------------------------------------------------------------------
(* C35: every step that changes the collection, a published list of a run, *)
(* a delete or an in-place edit of an entry among them, leaves the ids of  *)
(* all entries selected; a click on the checkbox of an entry changes the   *)
(* selection by that id alone and lasts until the next such step.          *)
C35_SelectionResetOnChange ==
  [][/\ generatedImages' # generatedImages
          => selectedImages' = {generatedImages'[k].id : k \in 1..Len(generatedImages')}
     /\ \A k \in 1..Len(edits) :
          EditResolves(k)
            => selectedImages' = {generatedImages'[j].id : j \in 1..Len(generatedImages')}
     /\ \A id \in {generatedImages[k].id : k \in 1..Len(generatedImages)} :
          SelectImage(id)
            => /\ id \in selectedImages => selectedImages' = selectedImages \ {id}
               /\ id \notin selectedImages => selectedImages' = selectedImages \cup {id}
               /\ generatedImages' = generatedImages]_vars

\* The background of the first of two entries has been removed, after one
\* click that took an entry out of the selection: both are selected.
C35_Witness ==
  /\ Len(generatedImages) = 2
  /\ generatedImages[1].base64.data[1] = "removeBg"
  /\ selectedImages = {generatedImages[1].id, generatedImages[2].id}
  /\ nOps = MaxOps - MaxEditOps + 3
  /\ modalImageIndex = <<0>>
  /\ edits = <<>>
  /\ deleted = {}

----------------------------------------------------------------------------
(* C36: loading is true exactly when progress is set; a progress that is   *)
(* set has 0 <= current <= total and 1 <= total <= 30; and while the call  *)
(* of a run for its index i is in flight, progress is (i + 1, N), N being  *)
(* the number of requests of the run.                                      *)
C36_LoadingIffProgress ==
  /\ isLoading <=> progress # <<>>
  /\ progress # <<>> =>
       /\ 0 <= progress[1].current
       /\ progress[1].current <= progress[1].total
       /\ 1 <= progress[1].total
       /\ progress[1].total <= 30
  /\ \A r \in 1..Len(runs) :
       runs[r].pc = "await" =>
         progress = <<[current |-> runs[r].i + 1, total |-> Len(runs[r].variationPrompts)]>>

----------------------------------------------------------------------------
(* C37: the presets hold every built-in preset, hold no phrase twice and   *)
(* never lose or move a phrase; a pending confirmation lists no phrase     *)
(* twice and no phrase that is a preset, where "Winking" is not the preset *)
(* "winking"; Generate on the list that was last answered with "Yes, Save" *)
(* starts the run and sets no confirmation, and Generate on the list last  *)
(* answered with "No, Continue" asks again for its phrases that are no     *)
(* presets and starts no run.                                              *)
C37_PresetsGrowAndAskOnce ==
  /\ [](/\ \A k \in 1..Len(INITIAL_PRESETS) : Includes(presets, INITIAL_PRESETS[k])
        /\ Len(presets) = Cardinality(Range(presets))
        /\ savePresetsConfirmation # Null =>
             LET listed == Val(savePresetsConfirmation) IN
             /\ Len(listed) = Cardinality(Range(listed))
             /\ Range(listed) \cap Range(presets) = {})
  /\ [][/\ Len(presets') >= Len(presets)
        /\ SubSeq(presets', 1, Len(presets)) = presets
        /\ ConfirmSavePresets =>
             \A k \in 1..Len(Val(asked).variationPrompts) :
               Includes(presets', Val(asked).variationPrompts[k])
        /\ (/\ GenerateClick
            /\ runs # <<>>
            /\ runs[Len(runs)].gate # "direct"
            /\ Val(runs[Len(runs)].asked).variationPrompts = RequestList(variations))
           => IF runs[Len(runs)].gate = "confirm"
                THEN /\ savePresetsConfirmation' = savePresetsConfirmation
                     /\ asked' = asked
                     /\ nRuns' = nRuns + 1
                     /\ runs'[Len(runs')].gate = "direct"
                     /\ runs'[Len(runs')].variationPrompts = RequestList(variations)
                ELSE /\ savePresetsConfirmation' # Null
                     /\ Range(Val(savePresetsConfirmation'))
                          = Range(RequestList(variations)) \ Range(presets)
                     /\ Val(savePresetsConfirmation') # <<>>
                     /\ runs' = runs
                     /\ nRuns' = nRuns]_vars

\* "Winking" was asked for and saved next to the built-in "winking", the
\* run of the answer has ended, and Generate on the same text has started
\* a second run without asking.
C37_Witness ==
  /\ boot.presets = Null
  /\ presets = Append(INITIAL_PRESETS, <<"Winking">>)
  /\ variations = <<"Winking", "\n", "winking", "\n", "Winking">>
  /\ nRuns = MaxRuns
  /\ Len(runs) = 1
  /\ runs[1].gate = "direct"
  /\ runs[1].pc = "await"
  /\ runs[1].variationPrompts = << <<"Winking">>, <<"winking">>, <<"Winking">> >>
  /\ savePresetsConfirmation = Null
  /\ nOps = MaxOps - 2

----------------------------------------------------------------------------
(* C38: a save under a name that is not blank leaves a template of that    *)
(* name, trimmed, which holds the variations text and the two colors of    *)
(* the moment of the save, and the save changes none of the three; a load  *)
(* of a template sets the text and the two colors to those of the          *)
(* template, closes the dialog and changes nothing else: the base image,   *)
(* the results, the presets, the strict palette, the locks, the dials and  *)
(* the templates are as before.  So a load right after the save gives the  *)
(* values of the save.                                                     *)
C38_TemplateRoundTrip ==
  [][/\ \A name \in TemplateNames :
          SaveTemplate(name) =>
            /\ \E k \in 1..Len(savedTemplates') : savedTemplates'[k].name = Trim(name)
            /\ \A k \in 1..Len(savedTemplates') :
                 savedTemplates'[k].name = Trim(name) =>
                   /\ savedTemplates'[k].variations = variations'
                   /\ savedTemplates'[k].primaryColor = primaryColor'
                   /\ savedTemplates'[k].secondaryColor = secondaryColor'
            /\ UNCHANGED <<variations, primaryColor, secondaryColor>>
     /\ \A k \in 1..Len(savedTemplates) :
          LoadTemplate(k) =>
            /\ variations' = savedTemplates[k].variations
            /\ primaryColor' = savedTemplates[k].primaryColor
            /\ secondaryColor' = savedTemplates[k].secondaryColor
            /\ UNCHANGED <<baseImage, generatedImages, presets, useStrictPalette,
                           consistencyLocks, promptTuning, savedTemplates, storedTemplates,
                           isLoading, progress, error, savePresetsConfirmation>>]_vars

\* Five operations on an empty store: the text and the colors were saved as
\* "hERO", the secondary color was changed, and the load of the template
\* has set it back.
C38_Witness ==
  /\ boot.templates = Null
  /\ nOps = MaxOps - MaxTemplateOps + 5
  /\ savedTemplates = <<[id |-> 1, name |-> <<"h", "E", "R", "O">>, variations |-> TextScenario,
                         primaryColor |-> "#4F46E5", secondaryColor |-> "#10B981"]>>
  /\ variations = TextScenario
  /\ primaryColor = "#4F46E5"
  /\ secondaryColor = "#10B981"
  /\ ~isLoadModalOpen
  /\ ~isSaveModalOpen

----------------------------------------------------------------------------
(* C39: the toggle of a preset that is none of the requests of the text    *)
(* appends it: the requests of the new text are the old ones followed by   *)
(* the preset, so that its first occurrence is the last line and the       *)
(* second toggle gives the old requests again.  The toggle of a preset     *)
(* that is a request removes its first occurrence and no other: the        *)
(* requests before it and those after it, later occurrences included,      *)
(* stay in their order.                                                    *)
C39_ToggleAppendsOrRemovesFirst ==
  [][\A preset \in Range(presets) :
       TogglePreset(preset) =>
         LET before == RequestList(variations)
             after == RequestList(variations')
             at == {k \in 1..Len(before) : before[k] = preset}
         IN  IF at = {}
               THEN /\ after = Append(before, preset)
                    /\ {k \in 1..Len(after) : after[k] = preset} = {Len(after)}
                    /\ SubSeq(after, 1, Len(after) - 1) = before
               ELSE \E index \in at :
                      /\ \A j \in at : index <= j
                      /\ Len(after) = Len(before) - 1
                      /\ \A k \in 1..Len(after) :
                           after[k] = IF k < index THEN before[k] ELSE before[k + 1]]_vars

\* " robot dance \nshocked\nrobot dance" after two toggles of "winking",
\* which was none of its requests: the requests are as before, trimmed.
C39_Witness ==
  /\ variations = <<"robot", " ", "dance", "\n", "shocked", "\n", "robot", " ", "dance">>
  /\ nOps = MaxOps
  /\ runs = <<>>
  /\ savePresetsConfirmation = Null
  /\ presets = Append(INITIAL_PRESETS, <<"robot", " ", "dance">>)

====
